---- MODULE Spec2Model ----
(***************************************************************************)
(* Coast FIRE calculator (src/coast-fire.py, src/main.py): the projection  *)
(* engine and its interactive front ends, modelled as a state machine.     *)
(*                                                                         *)
(* Python floats are modelled as the IEEE 754 doubles they are: a number   *)
(* is a record [neg, mant, exp] of the value (-1) ** neg * mant * 2 ** exp *)
(* whose mantissa is a natural kept as a little-endian sequence of limbs,  *)
(* and every operation rounds its exact result as the program does: +, -,  *)
(* * and / to the nearest double, ** as the pow of the C library does.     *)
(***************************************************************************)
EXTENDS Integers, Sequences, FiniteSets, TLC

(***************************************************************************)
(* Values. An operator of the arithmetic below receives its operands as    *)
(* values, computed once as the code computes them before a call: it binds *)
(* them with  v \in {operand}  and The(..) selects its single result.      *)
(***************************************************************************)
The(S) == CHOOSE v \in S : TRUE

(***************************************************************************)
(* Naturals of unbounded size, little-endian sequences of limbs of         *)
(* LIMB_BITS bits. The operations on the limbs lo .. hi of a number split  *)
(* the range in two halves, which keeps the evaluation shallow; each       *)
(* returns its limbs with the carry out of the range.                      *)
(***************************************************************************)
LIMB_BITS == 15
BASE == 32768

Limb(a, i) == IF i <= Len(a) THEN a[i] ELSE 0

\* the positions of the non-zero limbs of a
NonZeroLimbs(a) == {i \in 1 .. Len(a) : a[i] # 0}

\* the highest and the lowest of the positions s
Highest(s0) == The({ CHOOSE i \in s : \A j \in s : j <= i : s \in {s0} })
Lowest(s0) == The({ CHOOSE i \in s : \A j \in s : i <= j : s \in {s0} })

\* a without its leading zero limbs
NatTrim(a0) ==
    The({ The({ IF nz = {} THEN <<>> ELSE SubSeq(a, 1, Highest(nz))
                : nz \in {NonZeroLimbs(a)} })
          : a \in {a0} })

RECURSIVE NatOfInt(_)
NatOfInt(k) == IF k = 0 THEN <<>> ELSE <<k % BASE>> \o NatOfInt(k \div BASE)

\* the limbs of x followed by those of y, with the carry out of y
Joined(x, y0) == The({ <<x[1] \o y[1], y[2]>> : y \in {y0} })

RECURSIVE NatAddC(_, _, _, _, _)
\* <<limbs lo .. hi of a + b + carry c into lo, carry out of hi>>
NatAddC(a0, b0, lo0, hi0, c0) ==
    The({ IF lo > hi THEN <<<<>>, c>>
          ELSE IF lo = hi
          THEN <<<<(Limb(a, lo) + Limb(b, lo) + c) % BASE>>,
                 (Limb(a, lo) + Limb(b, lo) + c) \div BASE>>
          ELSE The({ Joined(x, NatAddC(a, b, (lo + hi) \div 2 + 1, hi, x[2]))
                     : x \in {NatAddC(a, b, lo, (lo + hi) \div 2, c)} })
          : a \in {a0}, b \in {b0}, lo \in {lo0}, hi \in {hi0}, c \in {c0} })

\* the limbs, followed by the carry if there is one
WithCarry(r0) == The({ IF r[2] = 0 THEN r[1] ELSE Append(r[1], r[2]) : r \in {r0} })

NatAdd(a0, b0) ==
    The({ WithCarry(NatAddC(a, b, 1, IF Len(a) >= Len(b) THEN Len(a) ELSE Len(b), 0))
          : a \in {a0}, b \in {b0} })

RECURSIVE NatSubC(_, _, _, _, _)
\* <<limbs lo .. hi of a - b - borrow c into lo, borrow out of hi>>
NatSubC(a0, b0, lo0, hi0, c0) ==
    The({ IF lo > hi THEN <<<<>>, c>>
          ELSE IF lo = hi
          THEN (IF a[lo] - Limb(b, lo) - c < 0
                THEN <<<<a[lo] - Limb(b, lo) - c + BASE>>, 1>>
                ELSE <<<<a[lo] - Limb(b, lo) - c>>, 0>>)
          ELSE The({ Joined(x, NatSubC(a, b, (lo + hi) \div 2 + 1, hi, x[2]))
                     : x \in {NatSubC(a, b, lo, (lo + hi) \div 2, c)} })
          : a \in {a0}, b \in {b0}, lo \in {lo0}, hi \in {hi0}, c \in {c0} })

\* a - b for a >= b
NatSub(a0, b) == The({ NatTrim(NatSubC(a, b, 1, Len(a), 0)[1]) : a \in {a0} })

\* the positions where a and b, of the same length, differ
Differing(a, b) == {i \in 1 .. Len(a) : a[i] # b[i]}

\* the comparison of a and b at the highest of the positions d
NatCmpAt(a, b, d0) ==
    The({ IF d = {} THEN 0
          ELSE The({ IF a[i] < b[i] THEN -1 ELSE 1 : i \in {Highest(d)} })
          : d \in {d0} })

\* -1, 0 or 1 as a < b, a = b or a > b
NatCmp(a0, b0) ==
    The({ IF Len(a) < Len(b) THEN -1
          ELSE IF Len(a) > Len(b) THEN 1
          ELSE NatCmpAt(a, b, Differing(a, b)) : a \in {a0}, b \in {b0} })

RECURSIVE NatMulSmallC(_, _, _, _, _)
\* <<limbs lo .. hi of a * k + carry c into lo, carry out of hi>>
NatMulSmallC(a0, k0, lo0, hi0, c0) ==
    The({ IF lo > hi THEN <<<<>>, c>>
          ELSE IF lo = hi
          THEN <<<<(a[lo] * k + c) % BASE>>, (a[lo] * k + c) \div BASE>>
          ELSE The({ Joined(x, NatMulSmallC(a, k, (lo + hi) \div 2 + 1, hi, x[2]))
                     : x \in {NatMulSmallC(a, k, lo, (lo + hi) \div 2, c)} })
          : a \in {a0}, k \in {k0}, lo \in {lo0}, hi \in {hi0}, c \in {c0} })

\* a * k for a single limb k
NatMulSmall(a0, k0) ==
    The({ IF k = 0 THEN <<>> ELSE WithCarry(NatMulSmallC(a, k, 1, Len(a), 0))
          : a \in {a0}, k \in {k0} })

\* a * BASE ** n
NatShift(a0, n) ==
    The({ IF a = <<>> THEN a ELSE [i \in 1 .. n |-> 0] \o a : a \in {a0} })

RECURSIVE NatMulAt(_, _, _, _)
\* a times the number made of the limbs lo .. hi of b
NatMulAt(a0, b0, lo0, hi0) ==
    The({ IF lo > hi THEN <<>>
          ELSE IF lo = hi THEN NatMulSmall(a, b[lo])
          ELSE NatAdd(NatMulAt(a, b, lo, (lo + hi) \div 2),
                      NatShift(NatMulAt(a, b, (lo + hi) \div 2 + 1, hi),
                               (lo + hi) \div 2 - lo + 1))
          : a \in {a0}, b \in {b0}, lo \in {lo0}, hi \in {hi0} })

NatMul(a0, b0) ==
    The({ IF a = <<>> THEN <<>> ELSE NatMulAt(a, b, 1, Len(b))
          : a \in {a0}, b \in {b0} })

\* the limbs of the lower half x before those of the upper half y, with the
\* remainder out of the lower half
JoinedDown(y, x0) == The({ <<x[1] \o y[1], x[2]>> : x \in {x0} })

RECURSIVE NatDivSmallAt(_, _, _, _, _)
\* <<limbs lo .. hi of the quotient of a by k, remainder out of lo>> for the
\* remainder r coming down into hi
NatDivSmallAt(a0, k0, lo0, hi0, r0) ==
    The({ IF lo > hi THEN <<<<>>, r>>
          ELSE IF lo = hi
          THEN <<<<(r * BASE + a[lo]) \div k>>, (r * BASE + a[lo]) % k>>
          ELSE The({ JoinedDown(y, NatDivSmallAt(a, k, lo, (lo + hi) \div 2, y[2]))
                     : y \in {NatDivSmallAt(a, k, (lo + hi) \div 2 + 1, hi, r)} })
          : a \in {a0}, k \in {k0}, lo \in {lo0}, hi \in {hi0}, r \in {r0} })

\* a \div k for a single limb k > 0
NatDivSmall(a0, k) == The({ NatTrim(NatDivSmallAt(a, k, 1, Len(a), 0)[1]) : a \in {a0} })

\* the digit estimated from the two highest limbs of a and the highest limb
\* of d, which is the digit of the quotient or up to 2 more when the highest
\* limb of d is BASE \div 2 or more
DigitEstimate(a0, d0) ==
    The({ The({ IF e >= BASE THEN BASE - 1 ELSE e
                : e \in {(Limb(a, Len(d) + 1) * BASE + Limb(a, Len(d))) \div d[Len(d)]} })
          : a \in {a0}, d \in {d0} })

\* the largest digit whose product with d is at most a, among the estimate e
\* and the two digits below it
DigitOf(a0, d0, e0) ==
    The({ IF NatCmp(NatMulSmall(d, e), a) <= 0 THEN e
          ELSE IF NatCmp(NatMulSmall(d, e - 1), a) <= 0 THEN e - 1
          ELSE e - 2
          : a \in {a0}, d \in {d0}, e \in {e0} })

\* <<digit, remainder>> of the division of a < d * BASE by d
NatDivDigit(a0, d0) ==
    The({ The({ <<q, NatSub(a, NatMulSmall(d, q))>> : q \in {DigitOf(a, d, DigitEstimate(a, d))} })
          : a \in {a0}, d \in {d0} })

RECURSIVE NatDivModAt(_, _, _, _, _)
\* <<limbs lo .. hi of the quotient of a by d, remainder out of lo>> for the
\* remainder r coming down into hi
NatDivModAt(a0, d0, lo0, hi0, r0) ==
    The({ IF lo > hi THEN <<<<>>, r>>
          ELSE IF lo = hi
          THEN The({ <<<<x[1]>>, x[2]>> : x \in {NatDivDigit(NatTrim(<<a[lo]>> \o r), d)} })
          ELSE The({ JoinedDown(y, NatDivModAt(a, d, lo, (lo + hi) \div 2, y[2]))
                     : y \in {NatDivModAt(a, d, (lo + hi) \div 2 + 1, hi, r)} })
          : a \in {a0}, d \in {d0}, lo \in {lo0}, hi \in {hi0}, r \in {r0} })

RECURSIVE IntBitLen(_)
\* the number of bits of the limb k
IntBitLen(k) == IF k = 0 THEN 0 ELSE 1 + IntBitLen(k \div 2)

\* the number of bits of a
BitLen(a0) ==
    The({ IF a = <<>> THEN 0 ELSE LIMB_BITS * (Len(a) - 1) + IntBitLen(a[Len(a)])
          : a \in {a0} })

\* a * 2 ** s
NatShiftLeft(a0, s0) ==
    The({ NatShift(NatMulSmall(a, 2 ^ (s % LIMB_BITS)), s \div LIMB_BITS)
          : a \in {a0}, s \in {s0} })

\* a \div 2 ** s
NatShiftRight(a0, s0) ==
    The({ IF s \div LIMB_BITS >= Len(a) THEN <<>>
          ELSE NatDivSmall(SubSeq(a, s \div LIMB_BITS + 1, Len(a)), 2 ^ (s % LIMB_BITS))
          : a \in {a0}, s \in {s0} })

\* <<a \div d, a % d # 0>> for a d whose highest limb is BASE \div 2 or more
NatDivModShifted(a0, d0) ==
    The({ The({ <<NatTrim(x[1]), x[2] # <<>> >> : x \in {NatDivModAt(a, d, 1, Len(a), <<>>)} })
          : a \in {a0}, d \in {d0} })

\* <<a \div d, a % d # 0>> for d > 0: both are shifted to the left by z bits,
\* which brings the highest limb of d to BASE \div 2 or more and leaves the
\* quotient as it is
NatDivMod(a0, d0) ==
    The({ The({ NatDivModShifted(NatShiftLeft(a, z), NatShiftLeft(d, z))
                : z \in {LIMB_BITS - IntBitLen(d[Len(d)])} })
          : a \in {a0}, d \in {d0} })

RECURSIVE IntTrailingZeros(_)
\* the number of zero bits below the lowest one bit of the limb k > 0
IntTrailingZeros(k) == IF k % 2 = 1 THEN 0 ELSE 1 + IntTrailingZeros(k \div 2)

\* the number of zero bits below the lowest one bit of a > 0
TrailingZeros(a0) ==
    The({ The({ LIMB_BITS * (i - 1) + IntTrailingZeros(a[i]) : i \in {Lowest(NonZeroLimbs(a))} })
          : a \in {a0} })

(***************************************************************************)
(* The floats of the code: IEEE 754 doubles. A double is a record          *)
(* [neg, mant, exp] of the value (-1) ** neg * mant * 2 ** exp, with an    *)
(* odd natural mant of at most MANTISSA_BITS bits (0.0 is mant <<>>, exp   *)
(* 0, and two doubles are equal exactly when their records are). Each      *)
(* operation of the hardware (+, -, *, /) returns the double nearest to    *)
(* its exact result, ties to the even mantissa. No value of the model is   *)
(* large enough to overflow.                                               *)
(***************************************************************************)
MANTISSA_BITS == 53

\* the exponent of the smallest positive double, 2 ** -1074
MIN_EXPONENT == -1074

Zero == [neg |-> FALSE, mant |-> <<>>, exp |-> 0]
One == [neg |-> FALSE, mant |-> <<1>>, exp |-> 0]

Abs(k) == IF k < 0 THEN -k ELSE k

\* the record of the dyadic number (-1) ** neg * m * 2 ** e with m made odd
Dyadic(neg, m0, e) ==
    The({ IF m = <<>> THEN Zero
          ELSE The({ [neg |-> neg, mant |-> NatShiftRight(m, z), exp |-> e + z]
                     : z \in {TrailingZeros(m)} })
          : m \in {m0} })

\* the quotient q of a division by 2 ** s, raised to the next natural where
\* the comparison c of the remainder with 2 ** (s - 1) rounds it up
RoundedUp(q, c0) ==
    The({ IF c > 0 \/ (c = 0 /\ Limb(q, 1) % 2 = 1) THEN NatAdd(q, <<1>>) ELSE q
          : c \in {c0} })

\* m / 2 ** s rounded to the nearest natural, ties to even, for s > 0
RoundHalfEven(m0, s0) ==
    The({ The({ RoundedUp(q, NatCmp(NatSub(m, NatShiftLeft(q, s)), NatShiftLeft(<<1>>, s - 1)))
                : q \in {NatShiftRight(m, s)} })
          : m \in {m0}, s \in {s0} })

\* the number of low bits of m * 2 ** e that a double cannot hold
BitsToRound(m, e0) ==
    The({ IF l - MANTISSA_BITS >= MIN_EXPONENT - e THEN l - MANTISSA_BITS ELSE MIN_EXPONENT - e
          : l \in {BitLen(m)}, e \in {e0} })

\* the double nearest to (-1) ** neg * m * 2 ** e
Double(neg, m0, e0) ==
    The({ The({ IF s <= 0 THEN Dyadic(neg, m, e) ELSE Dyadic(neg, RoundHalfEven(m, s), e + s)
                : s \in {BitsToRound(m, e)} })
          : m \in {m0}, e \in {e0} })

\* the number of bits by which n is shifted to the left for a quotient by d
\* of 55 bits or more
QuotientBits(n, d) ==
    The({ IF k > 0 THEN k ELSE 0 : k \in {MANTISSA_BITS + 2 + BitLen(d) - BitLen(n)} })

\* the double nearest to (-1) ** neg * (n / d) * 2 ** e for d > 0: the
\* quotient is taken to 55 bits or more, followed by one bit for a remainder
DoubleOfQuotient(neg, n0, d0, e0) ==
    The({ The({ The({ Double(neg,
                             NatAdd(NatShiftLeft(x[1], 1), IF x[2] THEN <<1>> ELSE <<>>),
                             e - k - 1)
                      : x \in {NatDivMod(NatShiftLeft(n, k), d)} })
                : k \in {QuotientBits(n, d)} })
          : n \in {n0}, d \in {d0}, e \in {e0} })

\* float(k) for an integer k
IntToReal(k) == Double(k < 0, NatOfInt(Abs(k)), 0)

\* -1, 0 or 1
RSign(r0) == The({ IF r.mant = <<>> THEN 0 ELSE IF r.neg THEN -1 ELSE 1 : r \in {r0} })

RNeg(r0) == The({ IF r.mant = <<>> THEN r ELSE [r EXCEPT !.neg = ~r.neg] : r \in {r0} })

\* the sign and the natural of x - y or x + y for naturals x, y of the signs
\* xneg, yneg
SignedSum(xneg, x0, yneg, y0) ==
    The({ IF xneg = yneg
          THEN <<xneg, NatAdd(x, y)>>
          ELSE IF NatCmp(x, y) >= 0
          THEN <<xneg, NatSub(x, y)>>
          ELSE <<yneg, NatSub(y, x)>>
          : x \in {x0}, y \in {y0} })

\* a + b, both brought to the exponent e, the lower of the two
SumAt(a, b, e0) ==
    The({ The({ Double(s[1], s[2], e)
                : s \in {SignedSum(a.neg, NatShiftLeft(a.mant, a.exp - e),
                                   b.neg, NatShiftLeft(b.mant, b.exp - e))} })
          : e \in {e0} })

\* a + b
RAdd(a0, b0) ==
    The({ SumAt(a, b, IF a.exp <= b.exp THEN a.exp ELSE b.exp) : a \in {a0}, b \in {b0} })

\* a - b
RSub(a, b) == RAdd(a, RNeg(b))

\* a * b
RMul(a0, b0) ==
    The({ Double(a.neg # b.neg, NatMul(a.mant, b.mant), a.exp + b.exp)
          : a \in {a0}, b \in {b0} })

\* a / b for b # 0 (the code raises ZeroDivisionError for b = 0)
RDiv(a0, b0) ==
    The({ DoubleOfQuotient(a.neg # b.neg, a.mant, b.mant, a.exp - b.exp)
          : a \in {a0}, b \in {b0} })

\* the float n / d for integers n and d > 0, which is the float of the
\* decimal literal as well
Real(n, d) == RDiv(IntToReal(n), IntToReal(d))

\* the comparison c of the magnitudes, turned for two negative numbers
SignedCmp(neg, c0) == The({ IF neg THEN -c ELSE c : c \in {c0} })

\* the comparison of the magnitudes of two numbers other than 0, by the
\* positions of their highest bits ta and tb first
MagnitudeCmp(a, b, ta0, tb0, e0) ==
    The({ IF ta < tb THEN -1
          ELSE IF ta > tb THEN 1
          ELSE NatCmp(NatShiftLeft(a.mant, a.exp - e), NatShiftLeft(b.mant, b.exp - e))
          : ta \in {ta0}, tb \in {tb0}, e \in {e0} })

\* the comparison of two numbers of the signs sa and sb
CmpBySign(sa, sb, a, b) ==
    IF sa # sb THEN (IF sa < sb THEN -1 ELSE 1)
    ELSE IF sa = 0 THEN 0
    ELSE SignedCmp(a.neg, MagnitudeCmp(a, b, BitLen(a.mant) + a.exp, BitLen(b.mant) + b.exp,
                                       IF a.exp <= b.exp THEN a.exp ELSE b.exp))

\* -1, 0 or 1 as a < b, a == b or a > b
RCmp(a0, b0) == The({ CmpBySign(RSign(a), RSign(b), a, b) : a \in {a0}, b \in {b0} })

RLt(a, b) == RCmp(a, b) < 0
RLe(a, b) == RCmp(a, b) <= 0
RGe(a, b) == RCmp(a, b) >= 0
RGt(a, b) == RCmp(a, b) > 0
REq(a, b) == RCmp(a, b) = 0

\* max(a, b)
RMax(a0, b0) == The({ IF RGe(a, b) THEN a ELSE b : a \in {a0}, b \in {b0} })

(***************************************************************************)
(* The power. x ** n of a float and an int is float_pow of CPython, which  *)
(* settles the signs and the powers of 0 and 1 and leaves the rest to pow  *)
(* of the C library. pow does not always return the double nearest to the  *)
(* exact power (2.759 ** 2 is 7.612080999999999, the nearest double is     *)
(* 7.612081), so that it is modelled by its steps: those of pow of glibc   *)
(* 2.36 on x86-64 with fused multiply-add, which takes the logarithm of x  *)
(* in two doubles (log_inline), multiplies it by y and takes the           *)
(* exponential (exp_inline), over the tables pow_log_data and exp_data of  *)
(* the library. Each step is rounded as the hardware rounds it. A result   *)
(* too large for a double is not modelled.                                 *)
(***************************************************************************)
\* __pow_log_data: ln 2 in two doubles, the polynomial of log1p and, for each
\* of the 2 ** POW_LOG_TABLE_BITS subintervals of [OFF, 2 * OFF), 1 / c and
\* log(c) in two doubles for a c near its centre
pow_log_data ==
    [ln2hi |-> [neg |-> FALSE, mant |-> <<24391, 4287, 2839>>, exp |-> -42],
     ln2lo |-> [neg |-> FALSE, mant |-> <<30323, 29304, 15573, 15>>, exp |-> -93],
     poly |-> <<[neg |-> TRUE, mant |-> <<1>>, exp |-> -1],
               [neg |-> TRUE, mant |-> <<10923, 21845, 10922, 5>>, exp |-> -48],
               [neg |-> FALSE, mant |-> <<3, 0, 0, 64>>, exp |-> -52],
               [neg |-> FALSE, mant |-> <<10919, 6489, 13107, 102>>, exp |-> -52],
               [neg |-> TRUE, mant |-> <<21053, 21801, 10922, 85>>, exp |-> -52],
               [neg |-> TRUE, mant |-> <<17897, 13968, 9582, 146>>, exp |-> -52],
               [neg |-> FALSE, mant |-> <<16323, 5708, 174, 128>>, exp |-> -52]>>,
     tab |-> <<[invc |-> [neg |-> FALSE, mant |-> <<181>>, exp |-> -7],
               logc |-> [neg |-> TRUE, mant |-> <<22329, 8380, 2838>>, exp |-> -43],
               logctail |-> [neg |-> FALSE, mant |-> <<28333, 4256, 21921, 1>>, exp |-> -93]],
              [invc |-> [neg |-> FALSE, mant |-> <<45>>, exp |-> -5],
               logc |-> [neg |-> TRUE, mant |-> <<27393, 28527, 2792>>, exp |-> -43],
               logctail |-> [neg |-> TRUE, mant |-> <<1977, 3470, 5281, 7>>, exp |-> -93]],
              [invc |-> [neg |-> FALSE, mant |-> <<179>>, exp |-> -7],
               logc |-> [neg |-> TRUE, mant |-> <<26795, 7621, 2747>>, exp |-> -43],
               logctail |-> [neg |-> TRUE, mant |-> <<20589, 11116, 2707, 155>>, exp |-> -97]],
              [invc |-> [neg |-> FALSE, mant |-> <<89>>, exp |-> -6],
               logc |-> [neg |-> TRUE, mant |-> <<26047, 11105, 2701>>, exp |-> -43],
               logctail |-> [neg |-> TRUE, mant |-> <<26581, 15712, 5010, 180>>, exp |-> -101]],
              [invc |-> [neg |-> FALSE, mant |-> <<177>>, exp |-> -7],
               logc |-> [neg |-> TRUE, mant |-> <<12015, 6117, 2655>>, exp |-> -43],
               logctail |-> [neg |-> TRUE, mant |-> <<18935, 6450, 877, 5>>, exp |-> -94]],
              [invc |-> [neg |-> FALSE, mant |-> <<11>>, exp |-> -3],
               logc |-> [neg |-> TRUE, mant |-> <<4323, 6332, 652>>, exp |-> -41],
               logctail |-> [neg |-> FALSE, mant |-> <<8499, 9254, 22575, 39>>, exp |-> -96]],
              [invc |-> [neg |-> FALSE, mant |-> <<175>>, exp |-> -7],
               logc |-> [neg |-> TRUE, mant |-> <<20693, 3105, 2562>>, exp |-> -43],
               logctail |-> [neg |-> FALSE, mant |-> <<1437, 28034, 1511, 113>>, exp |-> -101]],
              [invc |-> [neg |-> FALSE, mant |-> <<87>>, exp |-> -6],
               logc |-> [neg |-> TRUE, mant |-> <<11561, 4885, 2515>>, exp |-> -43],
               logctail |-> [neg |-> FALSE, mant |-> <<3235, 26725, 5688, 4>>, exp |-> -92]],
              [invc |-> [neg |-> FALSE, mant |-> <<173>>, exp |-> -7],
               logc |-> [neg |-> TRUE, mant |-> <<13617, 8054, 154>>, exp |-> -39],
               logctail |-> [neg |-> FALSE, mant |-> <<16457, 21701, 12955, 85>>, exp |-> -96]],
              [invc |-> [neg |-> FALSE, mant |-> <<43>>, exp |-> -5],
               logc |-> [neg |-> TRUE, mant |-> <<22281, 3627, 605>>, exp |-> -41],
               logctail |-> [neg |-> FALSE, mant |-> <<25979, 9837, 15759, 22>>, exp |-> -94]],
              [invc |-> [neg |-> FALSE, mant |-> <<171>>, exp |-> -7],
               logc |-> [neg |-> TRUE, mant |-> <<31697, 22148, 2372>>, exp |-> -43],
               logctail |-> [neg |-> FALSE, mant |-> <<12351, 28063, 10322, 174>>, exp |-> -98]],
              [invc |-> [neg |-> FALSE, mant |-> <<171>>, exp |-> -7],
               logc |-> [neg |-> TRUE, mant |-> <<31697, 22148, 2372>>, exp |-> -43],
               logctail |-> [neg |-> FALSE, mant |-> <<12351, 28063, 10322, 174>>, exp |-> -98]],
              [invc |-> [neg |-> FALSE, mant |-> <<85>>, exp |-> -6],
               logc |-> [neg |-> TRUE, mant |-> <<31215, 20606, 2324>>, exp |-> -43],
               logctail |-> [neg |-> TRUE, mant |-> <<27963, 10323, 13384, 89>>, exp |-> -97]],
              [invc |-> [neg |-> FALSE, mant |-> <<169>>, exp |-> -7],
               logc |-> [neg |-> TRUE, mant |-> <<11571, 9776, 2276>>, exp |-> -43],
               logctail |-> [neg |-> TRUE, mant |-> <<21761, 13427, 12220, 63>>, exp |-> -96]],
              [invc |-> [neg |-> FALSE, mant |-> <<21>>, exp |-> -4],
               logc |-> [neg |-> TRUE, mant |-> <<30069, 22314, 2227>>, exp |-> -43],
               logctail |-> [neg |-> FALSE, mant |-> <<10895, 18032, 18417, 15>>, exp |-> -94]],
              [invc |-> [neg |-> FALSE, mant |-> <<167>>, exp |-> -7],
               logc |-> [neg |-> TRUE, mant |-> <<13769, 25342, 2178>>, exp |-> -43],
               logctail |-> [neg |-> TRUE, mant |-> <<11571, 32005, 20873, 90>>, exp |-> -96]],
              [invc |-> [neg |-> FALSE, mant |-> <<83>>, exp |-> -6],
               logc |-> [neg |-> TRUE, mant |-> <<10041, 25756, 1064>>, exp |-> -42],
               logctail |-> [neg |-> TRUE, mant |-> <<391, 32500, 22492, 113>>, exp |-> -98]],
              [invc |-> [neg |-> FALSE, mant |-> <<165>>, exp |-> -7],
               logc |-> [neg |-> TRUE, mant |-> <<19277, 1202, 1040>>, exp |-> -42],
               logctail |-> [neg |-> TRUE, mant |-> <<11647, 15848, 23266, 129>>, exp |-> -100]],
              [invc |-> [neg |-> FALSE, mant |-> <<165>>, exp |-> -7],
               logc |-> [neg |-> TRUE, mant |-> <<19277, 1202, 1040>>, exp |-> -42],
               logctail |-> [neg |-> TRUE, mant |-> <<11647, 15848, 23266, 129>>, exp |-> -100]],
              [invc |-> [neg |-> FALSE, mant |-> <<41>>, exp |-> -5],
               logc |-> [neg |-> TRUE, mant |-> <<13689, 18627, 507>>, exp |-> -41],
               logctail |-> [neg |-> FALSE, mant |-> <<15495, 22322, 23722, 234>>, exp |-> -99]],
              [invc |-> [neg |-> FALSE, mant |-> <<163>>, exp |-> -7],
               logc |-> [neg |-> TRUE, mant |-> <<24291, 2780, 990>>, exp |-> -42],
               logctail |-> [neg |-> FALSE, mant |-> <<11209, 20035, 9911, 54>>, exp |-> -95]],
              [invc |-> [neg |-> FALSE, mant |-> <<81>>, exp |-> -6],
               logc |-> [neg |-> TRUE, mant |-> <<25263, 24813, 1929>>, exp |-> -43],
               logctail |-> [neg |-> TRUE, mant |-> <<32753, 27271, 19411, 11>>, exp |-> -94]],
              [invc |-> [neg |-> FALSE, mant |-> <<161>>, exp |-> -7],
               logc |-> [neg |-> TRUE, mant |-> <<11583, 24843, 469>>, exp |-> -41],
               logctail |-> [neg |-> FALSE, mant |-> <<26651, 30612, 27206, 141>>, exp |-> -97]],
              [invc |-> [neg |-> FALSE, mant |-> <<5>>, exp |-> -2],
               logc |-> [neg |-> TRUE, mant |-> <<15573, 32636, 913>>, exp |-> -42],
               logctail |-> [neg |-> FALSE, mant |-> <<24845, 13391, 31055, 46>>, exp |-> -95]],
              [invc |-> [neg |-> FALSE, mant |-> <<5>>, exp |-> -2],
               logc |-> [neg |-> TRUE, mant |-> <<15573, 32636, 913>>, exp |-> -42],
               logctail |-> [neg |-> FALSE, mant |-> <<24845, 13391, 31055, 46>>, exp |-> -95]],
              [invc |-> [neg |-> FALSE, mant |-> <<159>>, exp |-> -7],
               logc |-> [neg |-> TRUE, mant |-> <<17113, 20686, 1776>>, exp |-> -43],
               logctail |-> [neg |-> FALSE, mant |-> <<14223, 25367, 15040, 202>>, exp |-> -98]],
              [invc |-> [neg |-> FALSE, mant |-> <<79>>, exp |-> -6],
               logc |-> [neg |-> TRUE, mant |-> <<14851, 7754, 431>>, exp |-> -41],
               logctail |-> [neg |-> FALSE, mant |-> <<18483, 16333, 7366, 105>>, exp |-> -103]],
              [invc |-> [neg |-> FALSE, mant |-> <<157>>, exp |-> -7],
               logc |-> [neg |-> TRUE, mant |-> <<32299, 30595, 1672>>, exp |-> -43],
               logctail |-> [neg |-> TRUE, mant |-> <<24821, 23622, 6345, 86>>, exp |-> -96]],
              [invc |-> [neg |-> FALSE, mant |-> <<157>>, exp |-> -7],
               logc |-> [neg |-> TRUE, mant |-> <<32299, 30595, 1672>>, exp |-> -43],
               logctail |-> [neg |-> TRUE, mant |-> <<24821, 23622, 6345, 86>>, exp |-> -96]],
              [invc |-> [neg |-> FALSE, mant |-> <<39>>, exp |-> -5],
               logc |-> [neg |-> TRUE, mant |-> <<20293, 19283, 1620>>, exp |-> -43],
               logctail |-> [neg |-> TRUE, mant |-> <<21731, 2435, 18276, 214>>, exp |-> -97]],
              [invc |-> [neg |-> FALSE, mant |-> <<155>>, exp |-> -7],
               logc |-> [neg |-> TRUE, mant |-> <<21005, 29708, 1567>>, exp |-> -43],
               logctail |-> [neg |-> FALSE, mant |-> <<31241, 32695, 30461, 221>>, exp |-> -97]],
              [invc |-> [neg |-> FALSE, mant |-> <<77>>, exp |-> -6],
               logc |-> [neg |-> TRUE, mant |-> <<4231, 14480, 757>>, exp |-> -42],
               logctail |-> [neg |-> FALSE, mant |-> <<26955, 7316, 28104, 27>>, exp |-> -94]],
              [invc |-> [neg |-> FALSE, mant |-> <<77>>, exp |-> -6],
               logc |-> [neg |-> TRUE, mant |-> <<4231, 14480, 757>>, exp |-> -42],
               logctail |-> [neg |-> FALSE, mant |-> <<26955, 7316, 28104, 27>>, exp |-> -94]],
              [invc |-> [neg |-> FALSE, mant |-> <<153>>, exp |-> -7],
               logc |-> [neg |-> TRUE, mant |-> <<29085, 16892, 1461>>, exp |-> -43],
               logctail |-> [neg |-> TRUE, mant |-> <<28979, 9138, 18645, 67>>, exp |-> -97]],
              [invc |-> [neg |-> FALSE, mant |-> <<19>>, exp |-> -4],
               logc |-> [neg |-> TRUE, mant |-> <<2681, 26126, 1407>>, exp |-> -43],
               logctail |-> [neg |-> TRUE, mant |-> <<20537, 15904, 30990, 244>>, exp |-> -98]],
              [invc |-> [neg |-> FALSE, mant |-> <<19>>, exp |-> -4],
               logc |-> [neg |-> TRUE, mant |-> <<2681, 26126, 1407>>, exp |-> -43],
               logctail |-> [neg |-> TRUE, mant |-> <<20537, 15904, 30990, 244>>, exp |-> -98]],
              [invc |-> [neg |-> FALSE, mant |-> <<151>>, exp |-> -7],
               logc |-> [neg |-> TRUE, mant |-> <<14875, 23740, 1353>>, exp |-> -43],
               logctail |-> [neg |-> TRUE, mant |-> <<23439, 8206, 31278, 134>>, exp |-> -97]],
              [invc |-> [neg |-> FALSE, mant |-> <<75>>, exp |-> -6],
               logc |-> [neg |-> TRUE, mant |-> <<22935, 13485, 162>>, exp |-> -40],
               logctail |-> [neg |-> FALSE, mant |-> <<24079, 12442, 3265, 46>>, exp |-> -96]],
              [invc |-> [neg |-> FALSE, mant |-> <<75>>, exp |-> -6],
               logc |-> [neg |-> TRUE, mant |-> <<22935, 13485, 162>>, exp |-> -40],
               logctail |-> [neg |-> FALSE, mant |-> <<24079, 12442, 3265, 46>>, exp |-> -96]],
              [invc |-> [neg |-> FALSE, mant |-> <<149>>, exp |-> -7],
               logc |-> [neg |-> TRUE, mant |-> <<489, 16260, 1244>>, exp |-> -43],
               logctail |-> [neg |-> FALSE, mant |-> <<10781, 19751, 28940, 69>>, exp |-> -99]],
              [invc |-> [neg |-> FALSE, mant |-> <<37>>, exp |-> -5],
               logc |-> [neg |-> TRUE, mant |-> <<511, 10847, 1189>>, exp |-> -43],
               logctail |-> [neg |-> TRUE, mant |-> <<14465, 1500, 18072, 20>>, exp |-> -94]],
              [invc |-> [neg |-> FALSE, mant |-> <<147>>, exp |-> -7],
               logc |-> [neg |-> TRUE, mant |-> <<10619, 29357, 566>>, exp |-> -42],
               logctail |-> [neg |-> TRUE, mant |-> <<20939, 6161, 328, 122>>, exp |-> -96]],
              [invc |-> [neg |-> FALSE, mant |-> <<147>>, exp |-> -7],
               logc |-> [neg |-> TRUE, mant |-> <<10619, 29357, 566>>, exp |-> -42],
               logctail |-> [neg |-> TRUE, mant |-> <<20939, 6161, 328, 122>>, exp |-> -96]],
              [invc |-> [neg |-> FALSE, mant |-> <<73>>, exp |-> -6],
               logc |-> [neg |-> TRUE, mant |-> <<19721, 28623, 1077>>, exp |-> -43],
               logctail |-> [neg |-> FALSE, mant |-> <<5885, 17524, 27030, 52>>, exp |-> -97]],
              [invc |-> [neg |-> FALSE, mant |-> <<73>>, exp |-> -6],
               logc |-> [neg |-> TRUE, mant |-> <<19721, 28623, 1077>>, exp |-> -43],
               logctail |-> [neg |-> FALSE, mant |-> <<5885, 17524, 27030, 52>>, exp |-> -97]],
              [invc |-> [neg |-> FALSE, mant |-> <<145>>, exp |-> -7],
               logc |-> [neg |-> TRUE, mant |-> <<3807, 18707, 1021>>, exp |-> -43],
               logctail |-> [neg |-> TRUE, mant |-> <<6649, 23715, 27304, 85>>, exp |-> -96]],
              [invc |-> [neg |-> FALSE, mant |-> <<9>>, exp |-> -3],
               logc |-> [neg |-> TRUE, mant |-> <<28203, 19982, 120>>, exp |-> -40],
               logctail |-> [neg |-> FALSE, mant |-> <<15, 5496, 13356, 52>>, exp |-> -95]],
              [invc |-> [neg |-> FALSE, mant |-> <<9>>, exp |-> -3],
               logc |-> [neg |-> TRUE, mant |-> <<28203, 19982, 120>>, exp |-> -40],
               logctail |-> [neg |-> FALSE, mant |-> <<15, 5496, 13356, 52>>, exp |-> -95]],
              [invc |-> [neg |-> FALSE, mant |-> <<143>>, exp |-> -7],
               logc |-> [neg |-> TRUE, mant |-> <<15727, 29348, 453>>, exp |-> -42],
               logctail |-> [neg |-> TRUE, mant |-> <<24323, 22623, 6318, 116>>, exp |-> -97]],
              [invc |-> [neg |-> FALSE, mant |-> <<71>>, exp |-> -6],
               logc |-> [neg |-> TRUE, mant |-> <<21079, 9939, 850>>, exp |-> -43],
               logctail |-> [neg |-> FALSE, mant |-> <<30041, 31254, 7322, 21>>, exp |-> -94]],
              [invc |-> [neg |-> FALSE, mant |-> <<71>>, exp |-> -6],
               logc |-> [neg |-> TRUE, mant |-> <<21079, 9939, 850>>, exp |-> -43],
               logctail |-> [neg |-> FALSE, mant |-> <<30041, 31254, 7322, 21>>, exp |-> -94]],
              [invc |-> [neg |-> FALSE, mant |-> <<141>>, exp |-> -7],
               logc |-> [neg |-> TRUE, mant |-> <<12685, 13405, 792>>, exp |-> -43],
               logctail |-> [neg |-> FALSE, mant |-> <<27341, 21323, 15892, 19>>, exp |-> -95]],
              [invc |-> [neg |-> FALSE, mant |-> <<141>>, exp |-> -7],
               logc |-> [neg |-> TRUE, mant |-> <<12685, 13405, 792>>, exp |-> -43],
               logctail |-> [neg |-> FALSE, mant |-> <<27341, 21323, 15892, 19>>, exp |-> -95]],
              [invc |-> [neg |-> FALSE, mant |-> <<35>>, exp |-> -5],
               logc |-> [neg |-> TRUE, mant |-> <<22315, 3368, 734>>, exp |-> -43],
               logctail |-> [neg |-> TRUE, mant |-> <<14829, 18739, 11887, 90>>, exp |-> -96]],
              [invc |-> [neg |-> FALSE, mant |-> <<139>>, exp |-> -7],
               logc |-> [neg |-> TRUE, mant |-> <<30769, 12403, 675>>, exp |-> -43],
               logctail |-> [neg |-> FALSE, mant |-> <<24151, 17292, 2413, 248>>, exp |-> -98]],
              [invc |-> [neg |-> FALSE, mant |-> <<139>>, exp |-> -7],
               logc |-> [neg |-> TRUE, mant |-> <<30769, 12403, 675>>, exp |-> -43],
               logctail |-> [neg |-> FALSE, mant |-> <<24151, 17292, 2413, 248>>, exp |-> -98]],
              [invc |-> [neg |-> FALSE, mant |-> <<69>>, exp |-> -6],
               logc |-> [neg |-> TRUE, mant |-> <<12511, 7545, 616>>, exp |-> -43],
               logctail |-> [neg |-> FALSE, mant |-> <<5087, 6642, 31595, 226>>, exp |-> -97]],
              [invc |-> [neg |-> FALSE, mant |-> <<69>>, exp |-> -6],
               logc |-> [neg |-> TRUE, mant |-> <<12511, 7545, 616>>, exp |-> -43],
               logctail |-> [neg |-> FALSE, mant |-> <<5087, 6642, 31595, 226>>, exp |-> -97]],
              [invc |-> [neg |-> FALSE, mant |-> <<137>>, exp |-> -7],
               logc |-> [neg |-> TRUE, mant |-> <<23879, 5339, 139>>, exp |-> -41],
               logctail |-> [neg |-> FALSE, mant |-> <<8969, 27935, 29049, 163>>, exp |-> -98]],
              [invc |-> [neg |-> FALSE, mant |-> <<17>>, exp |-> -4],
               logc |-> [neg |-> TRUE, mant |-> <<35, 10435, 248>>, exp |-> -42],
               logctail |-> [neg |-> FALSE, mant |-> <<3729, 1645, 26234, 234>>, exp |-> -97]],
              [invc |-> [neg |-> FALSE, mant |-> <<17>>, exp |-> -4],
               logc |-> [neg |-> TRUE, mant |-> <<35, 10435, 248>>, exp |-> -42],
               logctail |-> [neg |-> FALSE, mant |-> <<3729, 1645, 26234, 234>>, exp |-> -97]],
              [invc |-> [neg |-> FALSE, mant |-> <<135>>, exp |-> -7],
               logc |-> [neg |-> TRUE, mant |-> <<25139, 2933, 218>>, exp |-> -42],
               logctail |-> [neg |-> FALSE, mant |-> <<7187, 29419, 634, 57>>, exp |-> -96]],
              [invc |-> [neg |-> FALSE, mant |-> <<135>>, exp |-> -7],
               logc |-> [neg |-> TRUE, mant |-> <<25139, 2933, 218>>, exp |-> -42],
               logctail |-> [neg |-> FALSE, mant |-> <<7187, 29419, 634, 57>>, exp |-> -96]],
              [invc |-> [neg |-> FALSE, mant |-> <<67>>, exp |-> -6],
               logc |-> [neg |-> TRUE, mant |-> <<22731, 8903, 375>>, exp |-> -43],
               logctail |-> [neg |-> TRUE, mant |-> <<20727, 13554, 30860, 115>>, exp |-> -96]],
              [invc |-> [neg |-> FALSE, mant |-> <<67>>, exp |-> -6],
               logc |-> [neg |-> TRUE, mant |-> <<22731, 8903, 375>>, exp |-> -43],
               logctail |-> [neg |-> TRUE, mant |-> <<20727, 13554, 30860, 115>>, exp |-> -96]],
              [invc |-> [neg |-> FALSE, mant |-> <<133>>, exp |-> -7],
               logc |-> [neg |-> TRUE, mant |-> <<26619, 29757, 313>>, exp |-> -43],
               logctail |-> [neg |-> FALSE, mant |-> <<32597, 29990, 1391, 84>>, exp |-> -99]],
              [invc |-> [neg |-> FALSE, mant |-> <<133>>, exp |-> -7],
               logc |-> [neg |-> TRUE, mant |-> <<26619, 29757, 313>>, exp |-> -43],
               logctail |-> [neg |-> FALSE, mant |-> <<32597, 29990, 1391, 84>>, exp |-> -99]],
              [invc |-> [neg |-> FALSE, mant |-> <<33>>, exp |-> -5],
               logc |-> [neg |-> TRUE, mant |-> <<25039, 24742, 15>>, exp |-> -39],
               logctail |-> [neg |-> TRUE, mant |-> <<633, 15935, 38, 51>>, exp |-> -95]],
              [invc |-> [neg |-> FALSE, mant |-> <<33>>, exp |-> -5],
               logc |-> [neg |-> TRUE, mant |-> <<25039, 24742, 15>>, exp |-> -39],
               logctail |-> [neg |-> TRUE, mant |-> <<633, 15935, 38, 51>>, exp |-> -95]],
              [invc |-> [neg |-> FALSE, mant |-> <<131>>, exp |-> -7],
               logc |-> [neg |-> TRUE, mant |-> <<4011, 25708, 189>>, exp |-> -43],
               logctail |-> [neg |-> TRUE, mant |-> <<9785, 10229, 13650, 196>>, exp |-> -97]],
              [invc |-> [neg |-> FALSE, mant |-> <<65>>, exp |-> -6],
               logc |-> [neg |-> TRUE, mant |-> <<11327, 24660, 31>>, exp |-> -41],
               logctail |-> [neg |-> TRUE, mant |-> <<27047, 31593, 7804, 62>>, exp |-> -100]],
              [invc |-> [neg |-> FALSE, mant |-> <<65>>, exp |-> -6],
               logc |-> [neg |-> TRUE, mant |-> <<11327, 24660, 31>>, exp |-> -41],
               logctail |-> [neg |-> TRUE, mant |-> <<27047, 31593, 7804, 62>>, exp |-> -100]],
              [invc |-> [neg |-> FALSE, mant |-> <<129>>, exp |-> -7],
               logc |-> [neg |-> TRUE, mant |-> <<9905, 31749, 7>>, exp |-> -40],
               logctail |-> [neg |-> TRUE, mant |-> <<4153, 1773, 25151, 51>>, exp |-> -96]],
              [invc |-> [neg |-> FALSE, mant |-> <<129>>, exp |-> -7],
               logc |-> [neg |-> TRUE, mant |-> <<9905, 31749, 7>>, exp |-> -40],
               logctail |-> [neg |-> TRUE, mant |-> <<4153, 1773, 25151, 51>>, exp |-> -96]],
              [invc |-> [neg |-> FALSE, mant |-> <<1>>, exp |-> 0],
               logc |-> Zero,
               logctail |-> Zero],
              [invc |-> [neg |-> FALSE, mant |-> <<1>>, exp |-> 0],
               logc |-> Zero,
               logctail |-> Zero],
              [invc |-> [neg |-> FALSE, mant |-> <<127>>, exp |-> -7],
               logc |-> [neg |-> FALSE, mant |-> <<30089, 8234, 64>>, exp |-> -43],
               logctail |-> [neg |-> TRUE, mant |-> <<9597, 26215, 25525, 16>>, exp |-> -95]],
              [invc |-> [neg |-> FALSE, mant |-> <<63>>, exp |-> -6],
               logc |-> [neg |-> FALSE, mant |-> <<12583, 345, 129>>, exp |-> -43],
               logctail |-> [neg |-> TRUE, mant |-> <<31721, 1762, 14518, 79>>, exp |-> -96]],
              [invc |-> [neg |-> FALSE, mant |-> <<125>>, exp |-> -7],
               logc |-> [neg |-> FALSE, mant |-> <<10441, 4682, 97>>, exp |-> -42],
               logctail |-> [neg |-> TRUE, mant |-> <<781, 6445, 8378, 53>>, exp |-> -95]],
              [invc |-> [neg |-> FALSE, mant |-> <<31>>, exp |-> -5],
               logc |-> [neg |-> FALSE, mant |-> <<10141, 2796, 260>>, exp |-> -43],
               logctail |-> [neg |-> FALSE, mant |-> <<22355, 14819, 18177, 136>>, exp |-> -99]],
              [invc |-> [neg |-> FALSE, mant |-> <<123>>, exp |-> -7],
               logc |-> [neg |-> FALSE, mant |-> <<27159, 26286, 40>>, exp |-> -40],
               logctail |-> [neg |-> TRUE, mant |-> <<16293, 23919, 2873, 28>>, exp |-> -94]],
              [invc |-> [neg |-> FALSE, mant |-> <<61>>, exp |-> -6],
               logc |-> [neg |-> FALSE, mant |-> <<21119, 9552, 393>>, exp |-> -43],
               logctail |-> [neg |-> TRUE, mant |-> <<9853, 8372, 26199, 203>>, exp |-> -98]],
              [invc |-> [neg |-> FALSE, mant |-> <<121>>, exp |-> -7],
               logc |-> [neg |-> FALSE, mant |-> <<14199, 23454, 460>>, exp |-> -43],
               logctail |-> [neg |-> TRUE, mant |-> <<10247, 4016, 9161, 211>>, exp |-> -98]],
              [invc |-> [neg |-> FALSE, mant |-> <<241>>, exp |-> -8],
               logc |-> [neg |-> FALSE, mant |-> <<27, 20878, 494>>, exp |-> -43],
               logctail |-> [neg |-> TRUE, mant |-> <<15227, 8082, 17657, 240>>, exp |-> -99]],
              [invc |-> [neg |-> FALSE, mant |-> <<239>>, exp |-> -8],
               logc |-> [neg |-> FALSE, mant |-> <<2611, 29629, 562>>, exp |-> -43],
               logctail |-> [neg |-> TRUE, mant |-> <<7835, 11291, 18805, 169>>, exp |-> -97]],
              [invc |-> [neg |-> FALSE, mant |-> <<237>>, exp |-> -8],
               logc |-> [neg |-> FALSE, mant |-> <<16015, 24410, 631>>, exp |-> -43],
               logctail |-> [neg |-> FALSE, mant |-> <<20183, 19382, 8570, 230>>, exp |-> -97]],
              [invc |-> [neg |-> FALSE, mant |-> <<235>>, exp |-> -8],
               logc |-> [neg |-> FALSE, mant |-> <<27837, 5540, 701>>, exp |-> -43],
               logctail |-> [neg |-> TRUE, mant |-> <<3727, 15453, 21004, 113>>, exp |-> -96]],
              [invc |-> [neg |-> FALSE, mant |-> <<117>>, exp |-> -7],
               logc |-> [neg |-> FALSE, mant |-> <<11179, 1688, 368>>, exp |-> -42],
               logctail |-> [neg |-> FALSE, mant |-> <<30361, 10653, 15643, 112>>, exp |-> -100]],
              [invc |-> [neg |-> FALSE, mant |-> <<29>>, exp |-> -5],
               logc |-> [neg |-> FALSE, mant |-> <<30053, 6898, 403>>, exp |-> -42],
               logctail |-> [neg |-> FALSE, mant |-> <<9197, 15037, 8888, 76>>, exp |-> -96]],
              [invc |-> [neg |-> FALSE, mant |-> <<115>>, exp |-> -7],
               logc |-> [neg |-> FALSE, mant |-> <<28011, 11400, 877>>, exp |-> -43],
               logctail |-> [neg |-> TRUE, mant |-> <<26853, 22510, 16896, 156>>, exp |-> -98]],
              [invc |-> [neg |-> FALSE, mant |-> <<229>>, exp |-> -8],
               logc |-> [neg |-> FALSE, mant |-> <<1777, 17088, 456>>, exp |-> -42],
               logctail |-> [neg |-> FALSE, mant |-> <<11475, 3253, 6983, 178>>, exp |-> -97]],
              [invc |-> [neg |-> FALSE, mant |-> <<227>>, exp |-> -8],
               logc |-> [neg |-> FALSE, mant |-> <<6225, 29592, 984>>, exp |-> -43],
               logctail |-> [neg |-> TRUE, mant |-> <<12847, 2814, 14349, 7>>, exp |-> -92]],
              [invc |-> [neg |-> FALSE, mant |-> <<113>>, exp |-> -7],
               logc |-> [neg |-> FALSE, mant |-> <<20191, 2323, 1021>>, exp |-> -43],
               logctail |-> [neg |-> TRUE, mant |-> <<2813, 8002, 21337, 169>>, exp |-> -97]],
              [invc |-> [neg |-> FALSE, mant |-> <<7>>, exp |-> -3],
               logc |-> [neg |-> FALSE, mant |-> <<4415, 30952, 546>>, exp |-> -42],
               logctail |-> [neg |-> FALSE, mant |-> <<1017, 20013, 24305, 71>>, exp |-> -96]],
              [invc |-> [neg |-> FALSE, mant |-> <<223>>, exp |-> -8],
               logc |-> [neg |-> FALSE, mant |-> <<25151, 17775, 1130>>, exp |-> -43],
               logctail |-> [neg |-> FALSE, mant |-> <<9805, 8732, 10126, 57>>, exp |-> -95]],
              [invc |-> [neg |-> FALSE, mant |-> <<221>>, exp |-> -8],
               logc |-> [neg |-> FALSE, mant |-> <<6413, 17796, 150>>, exp |-> -40],
               logctail |-> [neg |-> FALSE, mant |-> <<13473, 5891, 30131, 156>>, exp |-> -99]],
              [invc |-> [neg |-> FALSE, mant |-> <<55>>, exp |-> -6],
               logc |-> [neg |-> FALSE, mant |-> <<345, 16278, 1241>>, exp |-> -43],
               logctail |-> [neg |-> FALSE, mant |-> <<29321, 18070, 16032, 177>>, exp |-> -103]],
              [invc |-> [neg |-> FALSE, mant |-> <<109>>, exp |-> -7],
               logc |-> [neg |-> FALSE, mant |-> <<13115, 10160, 1316>>, exp |-> -43],
               logctail |-> [neg |-> FALSE, mant |-> <<14031, 21823, 16828, 21>>, exp |-> -94]],
              [invc |-> [neg |-> FALSE, mant |-> <<217>>, exp |-> -8],
               logc |-> [neg |-> FALSE, mant |-> <<18971, 31932, 1353>>, exp |-> -43],
               logctail |-> [neg |-> FALSE, mant |-> <<32199, 19154, 20387, 177>>, exp |-> -97]],
              [invc |-> [neg |-> FALSE, mant |-> <<215>>, exp |-> -8],
               logc |-> [neg |-> FALSE, mant |-> <<26817, 27095, 1429>>, exp |-> -43],
               logctail |-> [neg |-> FALSE, mant |-> <<1487, 19215, 26565, 25>>, exp |-> -95]],
              [invc |-> [neg |-> FALSE, mant |-> <<107>>, exp |-> -7],
               logc |-> [neg |-> FALSE, mant |-> <<14167, 593, 1468>>, exp |-> -43],
               logctail |-> [neg |-> TRUE, mant |-> <<8673, 19256, 17975, 168>>, exp |-> -97]],
              [invc |-> [neg |-> FALSE, mant |-> <<213>>, exp |-> -8],
               logc |-> [neg |-> FALSE, mant |-> <<21573, 12720, 1506>>, exp |-> -43],
               logctail |-> [neg |-> TRUE, mant |-> <<17157, 24866, 6209, 227>>, exp |-> -98]],
              [invc |-> [neg |-> FALSE, mant |-> <<211>>, exp |-> -8],
               logc |-> [neg |-> FALSE, mant |-> <<27449, 32095, 98>>, exp |-> -39],
               logctail |-> [neg |-> TRUE, mant |-> <<11473, 21970, 30034, 185>>, exp |-> -99]],
              [invc |-> [neg |-> FALSE, mant |-> <<105>>, exp |-> -7],
               logc |-> [neg |-> FALSE, mant |-> <<23799, 13493, 101>>, exp |-> -39],
               logctail |-> [neg |-> FALSE, mant |-> <<32623, 12609, 18593, 191>>, exp |-> -99]],
              [invc |-> [neg |-> FALSE, mant |-> <<13>>, exp |-> -4],
               logc |-> [neg |-> FALSE, mant |-> <<25687, 16083, 850>>, exp |-> -42],
               logctail |-> [neg |-> TRUE, mant |-> <<8553, 8364, 18701, 195>>, exp |-> -97]],
              [invc |-> [neg |-> FALSE, mant |-> <<207>>, exp |-> -8],
               logc |-> [neg |-> FALSE, mant |-> <<30141, 15114, 1740>>, exp |-> -43],
               logctail |-> [neg |-> TRUE, mant |-> <<28885, 20140, 27418, 112>>, exp |-> -98]],
              [invc |-> [neg |-> FALSE, mant |-> <<103>>, exp |-> -7],
               logc |-> [neg |-> FALSE, mant |-> <<16863, 2163, 890>>, exp |-> -42],
               logctail |-> [neg |-> TRUE, mant |-> <<2395, 22868, 6024, 117>>, exp |-> -96]],
              [invc |-> [neg |-> FALSE, mant |-> <<205>>, exp |-> -8],
               logc |-> [neg |-> FALSE, mant |-> <<28417, 32632, 1819>>, exp |-> -43],
               logctail |-> [neg |-> TRUE, mant |-> <<5609, 17814, 22757, 71>>, exp |-> -99]],
              [invc |-> [neg |-> FALSE, mant |-> <<203>>, exp |-> -8],
               logc |-> [neg |-> FALSE, mant |-> <<3401, 10166, 1900>>, exp |-> -43],
               logctail |-> [neg |-> TRUE, mant |-> <<12341, 28203, 31915, 215>>, exp |-> -97]],
              [invc |-> [neg |-> FALSE, mant |-> <<101>>, exp |-> -7],
               logc |-> [neg |-> FALSE, mant |-> <<32369, 25055, 1940>>, exp |-> -43],
               logctail |-> [neg |-> FALSE, mant |-> <<8003, 27656, 1161, 9>>, exp |-> -99]],
              [invc |-> [neg |-> FALSE, mant |-> <<201>>, exp |-> -8],
               logc |-> [neg |-> FALSE, mant |-> <<25821, 27483, 123>>, exp |-> -39],
               logctail |-> [neg |-> TRUE, mant |-> <<3601, 19319, 1109, 209>>, exp |-> -103]],
              [invc |-> [neg |-> FALSE, mant |-> <<25>>, exp |-> -5],
               logc |-> [neg |-> FALSE, mant |-> <<19259, 9101, 2022>>, exp |-> -43],
               logctail |-> [neg |-> FALSE, mant |-> <<19955, 6465, 29435, 13>>, exp |-> -94]],
              [invc |-> [neg |-> FALSE, mant |-> <<99>>, exp |-> -7],
               logc |-> [neg |-> FALSE, mant |-> <<2475, 19992, 2104>>, exp |-> -43],
               logctail |-> [neg |-> FALSE, mant |-> <<20113, 11738, 29548, 196>>, exp |-> -100]],
              [invc |-> [neg |-> FALSE, mant |-> <<197>>, exp |-> -8],
               logc |-> [neg |-> FALSE, mant |-> <<15115, 17110, 536>>, exp |-> -41],
               logctail |-> [neg |-> FALSE, mant |-> <<27369, 11385, 25132, 184>>, exp |-> -97]],
              [invc |-> [neg |-> FALSE, mant |-> <<49>>, exp |-> -6],
               logc |-> [neg |-> FALSE, mant |-> <<17661, 25504, 2187>>, exp |-> -43],
               logctail |-> [neg |-> TRUE, mant |-> <<31751, 12754, 8462, 56>>, exp |-> -95]],
              [invc |-> [neg |-> FALSE, mant |-> <<195>>, exp |-> -8],
               logc |-> [neg |-> FALSE, mant |-> <<30111, 22322, 2229>>, exp |-> -43],
               logctail |-> [neg |-> FALSE, mant |-> <<5761, 28490, 27447, 220>>, exp |-> -97]],
              [invc |-> [neg |-> FALSE, mant |-> <<97>>, exp |-> -7],
               logc |-> [neg |-> FALSE, mant |-> <<27469, 26200, 2271>>, exp |-> -43],
               logctail |-> [neg |-> FALSE, mant |-> <<15799, 8847, 7093, 229>>, exp |-> -97]],
              [invc |-> [neg |-> FALSE, mant |-> <<193>>, exp |-> -8],
               logc |-> [neg |-> FALSE, mant |-> <<8663, 4443, 2314>>, exp |-> -43],
               logctail |-> [neg |-> FALSE, mant |-> <<23925, 14918, 4029, 106>>, exp |-> -98]],
              [invc |-> [neg |-> FALSE, mant |-> <<191>>, exp |-> -8],
               logc |-> [neg |-> FALSE, mant |-> <<19913, 24079, 1199>>, exp |-> -42],
               logctail |-> [neg |-> FALSE, mant |-> <<317, 9512, 7418, 53>>, exp |-> -95]],
              [invc |-> [neg |-> FALSE, mant |-> <<95>>, exp |-> -7],
               logc |-> [neg |-> FALSE, mant |-> <<3739, 20254, 610>>, exp |-> -41],
               logctail |-> [neg |-> TRUE, mant |-> <<10135, 13512, 28989, 24>>, exp |-> -94]],
              [invc |-> [neg |-> FALSE, mant |-> <<189>>, exp |-> -8],
               logc |-> [neg |-> FALSE, mant |-> <<27617, 27886, 1242>>, exp |-> -42],
               logctail |-> [neg |-> FALSE, mant |-> <<12025, 27708, 14182, 17>>, exp |-> -95]],
              [invc |-> [neg |-> FALSE, mant |-> <<47>>, exp |-> -6],
               logc |-> [neg |-> FALSE, mant |-> <<29491, 19022, 1264>>, exp |-> -42],
               logctail |-> [neg |-> FALSE, mant |-> <<12119, 23299, 15188, 48>>, exp |-> -96]],
              [invc |-> [neg |-> FALSE, mant |-> <<187>>, exp |-> -8],
               logc |-> [neg |-> FALSE, mant |-> <<31421, 27912, 2572>>, exp |-> -43],
               logctail |-> [neg |-> FALSE, mant |-> <<24733, 22817, 4315, 199>>, exp |-> -99]],
              [invc |-> [neg |-> FALSE, mant |-> <<93>>, exp |-> -7],
               logc |-> [neg |-> FALSE, mant |-> <<20025, 25456, 2616>>, exp |-> -43],
               logctail |-> [neg |-> TRUE, mant |-> <<22133, 4815, 7992, 249>>, exp |-> -97]],
              [invc |-> [neg |-> FALSE, mant |-> <<185>>, exp |-> -8],
               logc |-> [neg |-> FALSE, mant |-> <<24947, 15379, 1330>>, exp |-> -42],
               logctail |-> [neg |-> TRUE, mant |-> <<13865, 3461, 8329, 60>>, exp |-> -95]],
              [invc |-> [neg |-> FALSE, mant |-> <<23>>, exp |-> -5],
               logc |-> [neg |-> FALSE, mant |-> <<14789, 10976, 676>>, exp |-> -41],
               logctail |-> [neg |-> FALSE, mant |-> <<18265, 713, 31170, 245>>, exp |-> -97]],
              [invc |-> [neg |-> FALSE, mant |-> <<183>>, exp |-> -8],
               logc |-> [neg |-> FALSE, mant |-> <<15501, 32490, 1374>>, exp |-> -42],
               logctail |-> [neg |-> FALSE, mant |-> <<16623, 23738, 14263, 253>>, exp |-> -98]],
              [invc |-> [neg |-> FALSE, mant |-> <<91>>, exp |-> -7],
               logc |-> [neg |-> FALSE, mant |-> <<31435, 23517, 698>>, exp |-> -41],
               logctail |-> [neg |-> TRUE, mant |-> <<6519, 1106, 2858, 52>>, exp |-> -97]]>>]

\* __exp_data: N / ln 2, the shift that rounds to an integer, -ln 2 / N in
\* two doubles, the polynomial of exp and, for each j below N =
\* 2 ** EXP_TABLE_BITS, 2 ** (j / N) as scale * (1 + tail) (the library keeps
\* the bits of scale less j * 2 ** 45, to which it adds those of k)
exp_data ==
    [invln2N |-> [neg |-> FALSE, mant |-> <<16767, 25899, 10894, 92>>, exp |-> -44],
     shift |-> [neg |-> FALSE, mant |-> <<3>>, exp |-> 51],
     negln2hiN |-> [neg |-> TRUE, mant |-> <<32637, 11842, 44>>, exp |-> -43],
     negln2loN |-> [neg |-> TRUE, mant |-> <<7581, 15518, 28469, 115>>, exp |-> -98],
     poly |-> <<[neg |-> FALSE, mant |-> <<32189, 32767, 32767, 255>>, exp |-> -54],
               [neg |-> FALSE, mant |-> <<21775, 10922, 21845, 42>>, exp |-> -53],
               [neg |-> FALSE, mant |-> <<11153, 7726, 21847, 170>>, exp |-> -57],
               [neg |-> FALSE, mant |-> <<20503, 20297, 17477, 136>>, exp |-> -59]>>,
     tab |-> <<[tail |-> Zero,
               scale |-> [neg |-> FALSE, mant |-> <<1>>, exp |-> 0]],
              [tail |-> [neg |-> FALSE, mant |-> <<24503, 6792, 30366, 108>>, exp |-> -105],
               scale |-> [neg |-> FALSE, mant |-> <<13109, 21494, 22774, 128>>, exp |-> -52]],
              [tail |-> [neg |-> TRUE, mant |-> <<23645, 14769, 78, 139>>, exp |-> -108],
               scale |-> [neg |-> FALSE, mant |-> <<97, 31983, 12904, 129>>, exp |-> -52]],
              [tail |-> [neg |-> TRUE, mant |-> <<26321, 8462, 31208, 130>>, exp |-> -106],
               scale |-> [neg |-> FALSE, mant |-> <<32645, 20700, 3159, 130>>, exp |-> -52]],
              [tail |-> [neg |-> FALSE, mant |-> <<30227, 27343, 18760, 230>>, exp |-> -107],
               scale |-> [neg |-> FALSE, mant |-> <<24925, 27018, 22960, 32>>, exp |-> -50]],
              [tail |-> [neg |-> TRUE, mant |-> <<18301, 9209, 7424, 111>>, exp |-> -106],
               scale |-> [neg |-> FALSE, mant |-> <<31599, 10717, 24790, 65>>, exp |-> -51]],
              [tail |-> [neg |-> FALSE, mant |-> <<18529, 17357, 23865, 135>>, exp |-> -109],
               scale |-> [neg |-> FALSE, mant |-> <<13177, 17949, 17314, 16>>, exp |-> -49]],
              [tail |-> [neg |-> FALSE, mant |-> <<21401, 13927, 3985, 133>>, exp |-> -106],
               scale |-> [neg |-> FALSE, mant |-> <<29571, 5517, 30971, 132>>, exp |-> -52]],
              [tail |-> [neg |-> FALSE, mant |-> <<31597, 15110, 27289, 188>>, exp |-> -106],
               scale |-> [neg |-> FALSE, mant |-> <<2319, 23027, 21857, 133>>, exp |-> -52]],
              [tail |-> [neg |-> FALSE, mant |-> <<31743, 18814, 13594, 61>>, exp |-> -105],
               scale |-> [neg |-> FALSE, mant |-> <<18423, 22244, 12872, 134>>, exp |-> -52]],
              [tail |-> [neg |-> FALSE, mant |-> <<7377, 24671, 30965, 245>>, exp |-> -112],
               scale |-> [neg |-> FALSE, mant |-> <<26833, 13011, 18392, 67>>, exp |-> -51]],
              [tail |-> [neg |-> TRUE, mant |-> <<28171, 4896, 3282, 208>>, exp |-> -109],
               scale |-> [neg |-> FALSE, mant |-> <<21275, 24573, 28058, 135>>, exp |-> -52]],
              [tail |-> [neg |-> TRUE, mant |-> <<24199, 10799, 11428, 85>>, exp |-> -105],
               scale |-> [neg |-> FALSE, mant |-> <<23377, 8228, 19463, 136>>, exp |-> -52]],
              [tail |-> [neg |-> TRUE, mant |-> <<27221, 6301, 958, 132>>, exp |-> -110],
               scale |-> [neg |-> FALSE, mant |-> <<3187, 24630, 10941, 34>>, exp |-> -50]],
              [tail |-> [neg |-> TRUE, mant |-> <<31243, 14805, 4679, 71>>, exp |-> -105],
               scale |-> [neg |-> FALSE, mant |-> <<18799, 10986, 10323, 4>>, exp |-> -47]],
              [tail |-> [neg |-> FALSE, mant |-> <<21935, 21176, 20367, 134>>, exp |-> -107],
               scale |-> [neg |-> FALSE, mant |-> <<3665, 4427, 27235, 138>>, exp |-> -52]],
              [tail |-> [neg |-> TRUE, mant |-> <<12905, 31401, 3466, 16>>, exp |-> -104],
               scale |-> [neg |-> FALSE, mant |-> <<20859, 30970, 19168, 139>>, exp |-> -52]],
              [tail |-> [neg |-> TRUE, mant |-> <<12861, 11196, 32705, 248>>, exp |-> -107],
               scale |-> [neg |-> FALSE, mant |-> <<18165, 14476, 5618, 70>>, exp |-> -51]],
              [tail |-> [neg |-> FALSE, mant |-> <<21439, 32294, 9776, 220>>, exp |-> -107],
               scale |-> [neg |-> FALSE, mant |-> <<19317, 22239, 3439, 141>>, exp |-> -52]],
              [tail |-> [neg |-> TRUE, mant |-> <<30099, 30225, 13112, 91>>, exp |-> -105],
               scale |-> [neg |-> FALSE, mant |-> <<5941, 16898, 15328, 35>>, exp |-> -50]],
              [tail |-> [neg |-> FALSE, mant |-> <<20859, 29667, 23966, 6>>, exp |-> -101],
               scale |-> [neg |-> FALSE, mant |-> <<23765, 12648, 10510, 71>>, exp |-> -51]],
              [tail |-> [neg |-> TRUE, mant |-> <<14493, 5900, 7691, 255>>, exp |-> -107],
               scale |-> [neg |-> FALSE, mant |-> <<22813, 17913, 13632, 143>>, exp |-> -52]],
              [tail |-> [neg |-> FALSE, mant |-> <<17293, 2381, 15621, 211>>, exp |-> -107],
               scale |-> [neg |-> FALSE, mant |-> <<18027, 2146, 3191, 72>>, exp |-> -51]],
              [tail |-> [neg |-> FALSE, mant |-> <<1149, 25032, 26646, 131>>, exp |-> -107],
               scale |-> [neg |-> FALSE, mant |-> <<28235, 4477, 16019, 72>>, exp |-> -51]],
              [tail |-> [neg |-> FALSE, mant |-> <<10789, 29140, 3837, 45>>, exp |-> -104],
               scale |-> [neg |-> FALSE, mant |-> <<11335, 7069, 7229, 18>>, exp |-> -49]],
              [tail |-> [neg |-> FALSE, mant |-> <<18557, 25832, 30819, 186>>, exp |-> -107],
               scale |-> [neg |-> FALSE, mant |-> <<9791, 8037, 18233, 146>>, exp |-> -52]],
              [tail |-> [neg |-> FALSE, mant |-> <<29689, 6175, 3671, 65>>, exp |-> -106],
               scale |-> [neg |-> FALSE, mant |-> <<31965, 19396, 11541, 147>>, exp |-> -52]],
              [tail |-> [neg |-> TRUE, mant |-> <<1071, 16241, 28918, 90>>, exp |-> -105],
               scale |-> [neg |-> FALSE, mant |-> <<25473, 17386, 4991, 148>>, exp |-> -52]],
              [tail |-> [neg |-> FALSE, mant |-> <<11057, 23059, 24453, 151>>, exp |-> -107],
               scale |-> [neg |-> FALSE, mant |-> <<24289, 27199, 31351, 148>>, exp |-> -52]],
              [tail |-> [neg |-> TRUE, mant |-> <<24573, 6767, 17206, 116>>, exp |-> -111],
               scale |-> [neg |-> FALSE, mant |-> <<11673, 31259, 11807, 9>>, exp |-> -48]],
              [tail |-> [neg |-> FALSE, mant |-> <<685, 14598, 14210, 54>>, exp |-> -105],
               scale |-> [neg |-> FALSE, mant |-> <<779, 19912, 18966, 150>>, exp |-> -52]],
              [tail |-> [neg |-> FALSE, mant |-> <<19343, 5021, 21066, 240>>, exp |-> -109],
               scale |-> [neg |-> FALSE, mant |-> <<6059, 10558, 22879, 75>>, exp |-> -51]],
              [tail |-> [neg |-> FALSE, mant |-> <<21979, 19888, 6890, 77>>, exp |-> -106],
               scale |-> [neg |-> FALSE, mant |-> <<14101, 5219, 7160, 152>>, exp |-> -52]],
              [tail |-> [neg |-> FALSE, mant |-> <<7443, 29014, 16897, 44>>, exp |-> -105],
               scale |-> [neg |-> FALSE, mant |-> <<22577, 30873, 1475, 153>>, exp |-> -52]],
              [tail |-> [neg |-> FALSE, mant |-> <<31781, 24019, 14962, 127>>, exp |-> -106],
               scale |-> [neg |-> FALSE, mant |-> <<5887, 25800, 28706, 153>>, exp |-> -52]],
              [tail |-> [neg |-> TRUE, mant |-> <<5825, 7623, 9088, 45>>, exp |-> -105],
               scale |-> [neg |-> FALSE, mant |-> <<8177, 16165, 23317, 154>>, exp |-> -52]],
              [tail |-> [neg |-> TRUE, mant |-> <<27149, 29458, 9590, 18>>, exp |-> -103],
               scale |-> [neg |-> FALSE, mant |-> <<10699, 28277, 18076, 155>>, exp |-> -52]],
              [tail |-> [neg |-> TRUE, mant |-> <<5831, 6993, 4080, 100>>, exp |-> -105],
               scale |-> [neg |-> FALSE, mant |-> <<27699, 27909, 6492, 78>>, exp |-> -51]],
              [tail |-> [neg |-> TRUE, mant |-> <<7017, 16020, 9168, 71>>, exp |-> -107],
               scale |-> [neg |-> FALSE, mant |-> <<8183, 27083, 8044, 157>>, exp |-> -52]],
              [tail |-> [neg |-> TRUE, mant |-> <<6933, 26524, 25702, 200>>, exp |-> -106],
               scale |-> [neg |-> FALSE, mant |-> <<10469, 1575, 3255, 158>>, exp |-> -52]],
              [tail |-> [neg |-> FALSE, mant |-> <<19565, 20052, 32034, 172>>, exp |-> -107],
               scale |-> [neg |-> FALSE, mant |-> <<6673, 19474, 15692, 79>>, exp |-> -51]],
              [tail |-> [neg |-> TRUE, mant |-> <<13509, 31272, 9408, 76>>, exp |-> -105],
               scale |-> [neg |-> FALSE, mant |-> <<8199, 598, 31301, 39>>, exp |-> -50]],
              [tail |-> [neg |-> TRUE, mant |-> <<2395, 4143, 7741, 197>>, exp |-> -110],
               scale |-> [neg |-> FALSE, mant |-> <<5909, 8695, 11284, 80>>, exp |-> -51]],
              [tail |-> [neg |-> TRUE, mant |-> <<6683, 20115, 12909, 225>>, exp |-> -108],
               scale |-> [neg |-> FALSE, mant |-> <<10391, 12961, 18391, 161>>, exp |-> -52]],
              [tail |-> [neg |-> FALSE, mant |-> <<11281, 16773, 4021, 155>>, exp |-> -111],
               scale |-> [neg |-> FALSE, mant |-> <<2349, 16579, 14369, 162>>, exp |-> -52]],
              [tail |-> [neg |-> FALSE, mant |-> <<25839, 30220, 6180, 179>>, exp |-> -106],
               scale |-> [neg |-> FALSE, mant |-> <<87, 23098, 10503, 163>>, exp |-> -52]],
              [tail |-> [neg |-> FALSE, mant |-> <<889, 13634, 13191, 246>>, exp |-> -109],
               scale |-> [neg |-> FALSE, mant |-> <<5069, 22200, 8616, 10>>, exp |-> -48]],
              [tail |-> [neg |-> FALSE, mant |-> <<28963, 18401, 32739, 9>>, exp |-> -102],
               scale |-> [neg |-> FALSE, mant |-> <<27119, 28887, 18005, 82>>, exp |-> -51]],
              [tail |-> [neg |-> FALSE, mant |-> <<11003, 22383, 9267, 11>>, exp |-> -104],
               scale |-> [neg |-> FALSE, mant |-> <<10791, 10860, 32619, 165>>, exp |-> -52]],
              [tail |-> [neg |-> FALSE, mant |-> <<24695, 22185, 30455, 152>>, exp |-> -106],
               scale |-> [neg |-> FALSE, mant |-> <<23821, 13307, 29386, 166>>, exp |-> -52]],
              [tail |-> [neg |-> TRUE, mant |-> <<20935, 113, 10344, 126>>, exp |-> -106],
               scale |-> [neg |-> FALSE, mant |-> <<11431, 27962, 26313, 167>>, exp |-> -52]],
              [tail |-> [neg |-> TRUE, mant |-> <<9033, 14631, 31539, 190>>, exp |-> -107],
               scale |-> [neg |-> FALSE, mant |-> <<13089, 8911, 11701, 84>>, exp |-> -51]],
              [tail |-> [neg |-> TRUE, mant |-> <<14431, 31262, 31514, 198>>, exp |-> -108],
               scale |-> [neg |-> FALSE, mant |-> <<10177, 22173, 26710, 84>>, exp |-> -51]],
              [tail |-> [neg |-> TRUE, mant |-> <<11899, 27771, 9357, 88>>, exp |-> -106],
               scale |-> [neg |-> FALSE, mant |-> <<4623, 5307, 18067, 170>>, exp |-> -52]],
              [tail |-> [neg |-> FALSE, mant |-> <<27591, 6397, 27146, 76>>, exp |-> -105],
               scale |-> [neg |-> FALSE, mant |-> <<5101, 14005, 24206, 85>>, exp |-> -51]],
              [tail |-> [neg |-> FALSE, mant |-> <<6917, 24341, 25308, 220>>, exp |-> -108],
               scale |-> [neg |-> FALSE, mant |-> <<18429, 10543, 13387, 172>>, exp |-> -52]],
              [tail |-> [neg |-> FALSE, mant |-> <<21513, 17464, 3975, 131>>, exp |-> -106],
               scale |-> [neg |-> FALSE, mant |-> <<21545, 14992, 11295, 173>>, exp |-> -52]],
              [tail |-> [neg |-> FALSE, mant |-> <<25461, 20505, 3850, 83>>, exp |-> -111],
               scale |-> [neg |-> FALSE, mant |-> <<18103, 5298, 9370, 174>>, exp |-> -52]],
              [tail |-> [neg |-> FALSE, mant |-> <<16437, 22217, 19352, 161>>, exp |-> -106],
               scale |-> [neg |-> FALSE, mant |-> <<9257, 17771, 29623, 21>>, exp |-> -49]],
              [tail |-> [neg |-> TRUE, mant |-> <<30367, 17202, 4393, 231>>, exp |-> -107],
               scale |-> [neg |-> FALSE, mant |-> <<23561, 29421, 6022, 176>>, exp |-> -52]],
              [tail |-> [neg |-> TRUE, mant |-> <<27061, 20219, 6626, 28>>, exp |-> -104],
               scale |-> [neg |-> FALSE, mant |-> <<21893, 24692, 4602, 177>>, exp |-> -52]],
              [tail |-> [neg |-> TRUE, mant |-> <<29911, 2347, 9969, 81>>, exp |-> -106],
               scale |-> [neg |-> FALSE, mant |-> <<26137, 25420, 18536, 5>>, exp |-> -47]],
              [tail |-> [neg |-> TRUE, mant |-> <<19211, 24085, 26478, 19>>, exp |-> -103],
               scale |-> [neg |-> FALSE, mant |-> <<8741, 1194, 2274, 179>>, exp |-> -52]],
              [tail |-> [neg |-> FALSE, mant |-> <<1625, 16447, 4266, 46>>, exp |-> -108],
               scale |-> [neg |-> FALSE, mant |-> <<10611, 10393, 1367, 180>>, exp |-> -52]],
              [tail |-> [neg |-> TRUE, mant |-> <<17477, 28631, 23031, 19>>, exp |-> -103],
               scale |-> [neg |-> FALSE, mant |-> <<15309, 19710, 633, 181>>, exp |-> -52]],
              [tail |-> [neg |-> TRUE, mant |-> <<23745, 1844, 9563, 104>>, exp |-> -108],
               scale |-> [neg |-> FALSE, mant |-> <<23231, 27159, 73, 182>>, exp |-> -52]],
              [tail |-> [neg |-> TRUE, mant |-> <<21751, 14445, 20447, 77>>, exp |-> -108],
               scale |-> [neg |-> FALSE, mant |-> <<6703, 30922, 32456, 182>>, exp |-> -52]],
              [tail |-> [neg |-> TRUE, mant |-> <<2129, 10689, 28917, 134>>, exp |-> -107],
               scale |-> [neg |-> FALSE, mant |-> <<25889, 31912, 32637, 45>>, exp |-> -50]],
              [tail |-> [neg |-> TRUE, mant |-> <<16079, 31924, 32145, 192>>, exp |-> -108],
               scale |-> [neg |-> FALSE, mant |-> <<6109, 29814, 8053, 46>>, exp |-> -50]],
              [tail |-> [neg |-> TRUE, mant |-> <<14299, 22545, 15250, 11>>, exp |-> -103],
               scale |-> [neg |-> FALSE, mant |-> <<24669, 9298, 16282, 46>>, exp |-> -50]],
              [tail |-> [neg |-> TRUE, mant |-> <<29509, 7765, 12900, 88>>, exp |-> -106],
               scale |-> [neg |-> FALSE, mant |-> <<26569, 11396, 32685, 186>>, exp |-> -52]],
              [tail |-> [neg |-> FALSE, mant |-> <<21715, 15379, 29485, 132>>, exp |-> -106],
               scale |-> [neg |-> FALSE, mant |-> <<23871, 8124, 421, 188>>, exp |-> -52]],
              [tail |-> [neg |-> TRUE, mant |-> <<9501, 29339, 19314, 217>>, exp |-> -108],
               scale |-> [neg |-> FALSE, mant |-> <<391, 26582, 1105, 189>>, exp |-> -52]],
              [tail |-> [neg |-> FALSE, mant |-> <<16491, 10447, 13301, 167>>, exp |-> -106],
               scale |-> [neg |-> FALSE, mant |-> <<24729, 304, 986, 95>>, exp |-> -51]],
              [tail |-> [neg |-> FALSE, mant |-> <<27733, 22444, 12166, 175>>, exp |-> -109],
               scale |-> [neg |-> FALSE, mant |-> <<10033, 14031, 17894, 95>>, exp |-> -51]],
              [tail |-> [neg |-> TRUE, mant |-> <<26529, 12211, 17290, 98>>, exp |-> -106],
               scale |-> [neg |-> FALSE, mant |-> <<3337, 21566, 2126, 96>>, exp |-> -51]],
              [tail |-> [neg |-> TRUE, mant |-> <<19917, 30877, 27062, 38>>, exp |-> -104],
               scale |-> [neg |-> FALSE, mant |-> <<19987, 12953, 5670, 193>>, exp |-> -52]],
              [tail |-> [neg |-> TRUE, mant |-> <<32655, 14873, 15624, 65>>, exp |-> -106],
               scale |-> [neg |-> FALSE, mant |-> <<18349, 3143, 7273, 194>>, exp |-> -52]],
              [tail |-> [neg |-> TRUE, mant |-> <<11191, 22642, 10401, 83>>, exp |-> -105],
               scale |-> [neg |-> FALSE, mant |-> <<4845, 13961, 9062, 195>>, exp |-> -52]],
              [tail |-> [neg |-> FALSE, mant |-> <<1861, 26459, 8538>>, exp |-> -97],
               scale |-> [neg |-> FALSE, mant |-> <<26265, 13076, 11039, 196>>, exp |-> -52]],
              [tail |-> [neg |-> FALSE, mant |-> <<15021, 24824, 14127, 59>>, exp |-> -105],
               scale |-> [neg |-> FALSE, mant |-> <<8411, 1109, 13205, 197>>, exp |-> -52]],
              [tail |-> [neg |-> TRUE, mant |-> <<26623, 14731, 22914, 173>>, exp |-> -109],
               scale |-> [neg |-> FALSE, mant |-> <<20771, 2906, 20274, 49>>, exp |-> -50]],
              [tail |-> [neg |-> FALSE, mant |-> <<22481, 11513, 30339, 55>>, exp |-> -106],
               scale |-> [neg |-> FALSE, mant |-> <<15259, 6421, 25437, 99>>, exp |-> -51]],
              [tail |-> [neg |-> TRUE, mant |-> <<15747, 20028, 9342, 152>>, exp |-> -106],
               scale |-> [neg |-> FALSE, mant |-> <<32739, 2961, 10422, 100>>, exp |-> -51]],
              [tail |-> [neg |-> TRUE, mant |-> <<7721, 5848, 9954, 237>>, exp |-> -110],
               scale |-> [neg |-> FALSE, mant |-> <<17893, 24987, 23774, 201>>, exp |-> -52]],
              [tail |-> [neg |-> TRUE, mant |-> <<14681, 31009, 4069, 225>>, exp |-> -109],
               scale |-> [neg |-> FALSE, mant |-> <<21007, 6032, 26899, 202>>, exp |-> -52]],
              [tail |-> [neg |-> TRUE, mant |-> <<31957, 8948, 1670, 73>>, exp |-> -105],
               scale |-> [neg |-> FALSE, mant |-> <<25829, 21499, 24416, 12>>, exp |-> -48]],
              [tail |-> [neg |-> TRUE, mant |-> <<3659, 11981, 10675, 174>>, exp |-> -107],
               scale |-> [neg |-> FALSE, mant |-> <<989, 28874, 16866, 102>>, exp |-> -51]],
              [tail |-> [neg |-> FALSE, mant |-> <<20007, 22307, 16368, 141>>, exp |-> -108],
               scale |-> [neg |-> FALSE, mant |-> <<16137, 12372, 28964, 12>>, exp |-> -48]],
              [tail |-> [neg |-> FALSE, mant |-> <<29627, 16916, 18647, 238>>, exp |-> -109],
               scale |-> [neg |-> FALSE, mant |-> <<8995, 13254, 8588, 207>>, exp |-> -52]],
              [tail |-> [neg |-> TRUE, mant |-> <<8803, 17604, 5136, 190>>, exp |-> -107],
               scale |-> [neg |-> FALSE, mant |-> <<25957, 30395, 12697, 208>>, exp |-> -52]],
              [tail |-> [neg |-> FALSE, mant |-> <<12757, 18372, 29211, 216>>, exp |-> -107],
               scale |-> [neg |-> FALSE, mant |-> <<11571, 22676, 17007, 209>>, exp |-> -52]],
              [tail |-> [neg |-> TRUE, mant |-> <<15125, 10105, 28487, 141>>, exp |-> -106],
               scale |-> [neg |-> FALSE, mant |-> <<9565, 25724, 21518, 210>>, exp |-> -52]],
              [tail |-> [neg |-> FALSE, mant |-> <<6377, 7406, 6243, 67>>, exp |-> -105],
               scale |-> [neg |-> FALSE, mant |-> <<5739, 1228, 15567, 26>>, exp |-> -49]],
              [tail |-> [neg |-> FALSE, mant |-> <<23219, 23782, 9745, 163>>, exp |-> -107],
               scale |-> [neg |-> FALSE, mant |-> <<32191, 10995, 31149, 212>>, exp |-> -52]],
              [tail |-> [neg |-> TRUE, mant |-> <<10093, 19399, 24525, 37>>, exp |-> -105],
               scale |-> [neg |-> FALSE, mant |-> <<31165, 16339, 1751, 107>>, exp |-> -51]],
              [tail |-> [neg |-> FALSE, mant |-> <<13191, 9622, 27102, 224>>, exp |-> -107],
               scale |-> [neg |-> FALSE, mant |-> <<21421, 12981, 8830, 215>>, exp |-> -52]],
              [tail |-> [neg |-> TRUE, mant |-> <<27901, 19153, 30494, 65>>, exp |-> -105],
               scale |-> [neg |-> FALSE, mant |-> <<23347, 10637, 7182, 108>>, exp |-> -51]],
              [tail |-> [neg |-> TRUE, mant |-> <<22365, 22236, 1970, 87>>, exp |-> -109],
               scale |-> [neg |-> FALSE, mant |-> <<5627, 28830, 20106, 217>>, exp |-> -52]],
              [tail |-> [neg |-> TRUE, mant |-> <<7129, 29165, 2624, 2>>, exp |-> -100],
               scale |-> [neg |-> FALSE, mant |-> <<11421, 3557, 13029, 109>>, exp |-> -51]],
              [tail |-> [neg |-> TRUE, mant |-> <<25805, 7254, 22260, 49>>, exp |-> -107],
               scale |-> [neg |-> FALSE, mant |-> <<24135, 26102, 32219, 219>>, exp |-> -52]],
              [tail |-> [neg |-> TRUE, mant |-> <<2613, 22193, 15241, 143>>, exp |-> -106],
               scale |-> [neg |-> FALSE, mant |-> <<805, 12449, 19296, 110>>, exp |-> -51]],
              [tail |-> [neg |-> FALSE, mant |-> <<24013, 5311, 32604, 167>>, exp |-> -108],
               scale |-> [neg |-> FALSE, mant |-> <<24809, 4171, 6205, 111>>, exp |-> -51]],
              [tail |-> [neg |-> TRUE, mant |-> <<9771, 32073, 15867, 35>>, exp |-> -104],
               scale |-> [neg |-> FALSE, mant |-> <<7689, 14254, 19209, 223>>, exp |-> -52]],
              [tail |-> [neg |-> FALSE, mant |-> <<3251, 24926, 15032, 155>>, exp |-> -108],
               scale |-> [neg |-> FALSE, mant |-> <<21671, 28354, 6555, 56>>, exp |-> -50]],
              [tail |-> [neg |-> FALSE, mant |-> <<32613, 11855, 25394, 61>>, exp |-> -105],
               scale |-> [neg |-> FALSE, mant |-> <<26685, 24575, 342, 113>>, exp |-> -51]],
              [tail |-> [neg |-> FALSE, mant |-> <<22123, 26756, 24719, 41>>, exp |-> -105],
               scale |-> [neg |-> FALSE, mant |-> <<20811, 23727, 8132, 227>>, exp |-> -52]],
              [tail |-> [neg |-> FALSE, mant |-> <<6759, 28828, 14012, 158>>, exp |-> -109],
               scale |-> [neg |-> FALSE, mant |-> <<26549, 10253, 15798, 228>>, exp |-> -52]],
              [tail |-> [neg |-> FALSE, mant |-> <<17197, 6948, 13718, 23>>, exp |-> -106],
               scale |-> [neg |-> FALSE, mant |-> <<4201, 14815, 23683, 229>>, exp |-> -52]],
              [tail |-> [neg |-> TRUE, mant |-> <<23273, 972, 5169, 66>>, exp |-> -106],
               scale |-> [neg |-> FALSE, mant |-> <<25085, 21853, 15894, 115>>, exp |-> -51]],
              [tail |-> [neg |-> TRUE, mant |-> <<31343, 32767, 13684, 253>>, exp |-> -107],
               scale |-> [neg |-> FALSE, mant |-> <<25183, 9475, 1837, 58>>, exp |-> -50]],
              [tail |-> [neg |-> TRUE, mant |-> <<10569, 28907, 14008, 128>>, exp |-> -106],
               scale |-> [neg |-> FALSE, mant |-> <<17657, 2061, 24334, 116>>, exp |-> -51]],
              [tail |-> [neg |-> FALSE, mant |-> <<1959, 19578, 3606, 165>>, exp |-> -108],
               scale |-> [neg |-> FALSE, mant |-> <<9351, 14839, 24675, 234>>, exp |-> -52]],
              [tail |-> [neg |-> TRUE, mant |-> <<8719, 16512, 18040, 148>>, exp |-> -107],
               scale |-> [neg |-> FALSE, mant |-> <<12403, 17842, 16497, 29>>, exp |-> -49]],
              [tail |-> [neg |-> FALSE, mant |-> <<25771, 27360, 23120, 60>>, exp |-> -105],
               scale |-> [neg |-> FALSE, mant |-> <<12933, 1974, 10136, 237>>, exp |-> -52]],
              [tail |-> [neg |-> FALSE, mant |-> <<27467, 22530, 26982, 161>>, exp |-> -107],
               scale |-> [neg |-> FALSE, mant |-> <<3491, 7984, 14948, 7>>, exp |-> -47]],
              [tail |-> [neg |-> TRUE, mant |-> <<15903, 3944, 21636, 150>>, exp |-> -107],
               scale |-> [neg |-> FALSE, mant |-> <<7007, 26359, 29276, 239>>, exp |-> -52]],
              [tail |-> [neg |-> TRUE, mant |-> <<3529, 30350, 10980, 201>>, exp |-> -107],
               scale |-> [neg |-> FALSE, mant |-> <<8489, 10731, 6424, 241>>, exp |-> -52]],
              [tail |-> [neg |-> FALSE, mant |-> <<2259, 16501, 22545, 165>>, exp |-> -108],
               scale |-> [neg |-> FALSE, mant |-> <<8187, 26507, 8285, 121>>, exp |-> -51]],
              [tail |-> [neg |-> FALSE, mant |-> <<29297, 9018, 6065, 158>>, exp |-> -107],
               scale |-> [neg |-> FALSE, mant |-> <<19587, 30606, 26951, 243>>, exp |-> -52]],
              [tail |-> [neg |-> TRUE, mant |-> <<14623, 20986, 32196, 15>>, exp |-> -103],
               scale |-> [neg |-> FALSE, mant |-> <<18541, 8868, 18783, 122>>, exp |-> -51]],
              [tail |-> [neg |-> TRUE, mant |-> <<29821, 17478, 14947, 237>>, exp |-> -107],
               scale |-> [neg |-> FALSE, mant |-> <<26609, 23324, 15648, 246>>, exp |-> -52]],
              [tail |-> [neg |-> FALSE, mant |-> <<17409, 4202, 25054, 30>>, exp |-> -104],
               scale |-> [neg |-> FALSE, mant |-> <<23079, 23746, 26735, 247>>, exp |-> -52]],
              [tail |-> [neg |-> FALSE, mant |-> <<30105, 17321, 22313, 80>>, exp |-> -106],
               scale |-> [neg |-> FALSE, mant |-> <<14999, 28375, 5292, 249>>, exp |-> -52]],
              [tail |-> [neg |-> FALSE, mant |-> <<17143, 12753, 18770, 105>>, exp |-> -106],
               scale |-> [neg |-> FALSE, mant |-> <<14613, 13019, 29959, 3>>, exp |-> -46]],
              [tail |-> [neg |-> TRUE, mant |-> <<25581, 18551, 24299, 241>>, exp |-> -107],
               scale |-> [neg |-> FALSE, mant |-> <<12165, 22222, 31741, 62>>, exp |-> -50]],
              [tail |-> [neg |-> FALSE, mant |-> <<19869, 6947, 9453, 188>>, exp |-> -108],
               scale |-> [neg |-> FALSE, mant |-> <<21019, 24679, 21472, 31>>, exp |-> -49]],
              [tail |-> [neg |-> FALSE, mant |-> <<19593, 705, 5893, 152>>, exp |-> -110],
               scale |-> [neg |-> FALSE, mant |-> <<29169, 22302, 20232, 254>>, exp |-> -52]]>>]

\* x * y, exact
Product(x0, y0) ==
    The({ IF x.mant = <<>> \/ y.mant = <<>> THEN Zero
          ELSE [neg |-> x.neg # y.neg, mant |-> NatMul(x.mant, y.mant), exp |-> x.exp + y.exp]
          : x \in {x0}, y \in {y0} })

\* fma(x, y, z): x * y + z, rounded once
Fma(x, y, z0) ==
    The({ SumAt(p, z, IF p.exp <= z.exp THEN p.exp ELSE z.exp)
          : p \in {Product(x, y)}, z \in {z0} })

RECURSIVE IntOfNat(_)
\* the integer of the limbs a
IntOfNat(a) == IF a = <<>> THEN 0 ELSE a[1] + BASE * IntOfNat(Tail(a))

\* the integer that the double r holds
IntOfDouble(r0) ==
    The({ IF r.neg THEN -IntOfNat(NatShiftLeft(r.mant, r.exp))
          ELSE IntOfNat(NatShiftLeft(r.mant, r.exp)) : r \in {r0} })

\* the position of the highest bit of x # 0: the exponent of the double
TopBit(x0) == The({ x.exp + BitLen(x.mant) - 1 : x \in {x0} })

\* x * 2 ** n
Scaled(x0, n) == The({ IF x.mant = <<>> THEN x ELSE [x EXCEPT !.exp = x.exp + n] : x \in {x0} })

\* the MANTISSA_BITS bits of the significand of x # 0
Significand(x0) == The({ NatShiftLeft(x.mant, MANTISSA_BITS - BitLen(x.mant)) : x \in {x0} })

POW_LOG_TABLE_BITS == 7
EXP_TABLE_BITS == 7

\* the significand of OFF = 0x3fe6955500000000, the double 0x1.69555p-1
OFF == NatShiftLeft(NatOfInt(1480021), 32)

\* the bits of ix - OFF from the bit 52 - POW_LOG_TABLE_BITS up, without
\* the exponent of x: 2 ** POW_LOG_TABLE_BITS or more where the significand
\* of x is that of OFF or more
OffsetBits(x) ==
    Limb(NatShiftRight(NatSub(NatAdd(Significand(x), NatShiftLeft(<<1>>, MANTISSA_BITS - 1)), OFF),
                       MANTISSA_BITS - 1 - POW_LOG_TABLE_BITS), 1)

RECURSIVE libm(_, _, _, _)
\* the arithmetic of pow.c, each operation that of the processor: fma, +, -
\* and *.  They are reached through libm, as pow is, so that a power is one
\* expression however many operations it takes
fma(x, y, z) == libm("fma", x, y, z)

add(x, y) == libm("add", x, y, Zero)

sub(x, y) == libm("sub", x, y, Zero)

mul(x, y) == libm("mul", x, y, Zero)

\* log_inline of pow.c without its reduction: <<y, tail>> with y + tail close
\* to the logarithm of 2 ** k * z for kd = k, z in [OFF, 2 * OFF) and the
\* entry T of the subinterval of z; A is the polynomial
LogOf(z, kd, T, A, Ln2hi, Ln2lo) ==
    The({ The({ The({ The({ The({ The({ The({ <<y, add(sub(hi, y), lo)>>
        : y \in {add(hi, lo)} })
        : lo \in {fma(ar3, p, add(add(add(lo1, lo2), lo3), lo4))} })
        : lo4 \in {add(sub(t2, hi), ar2)}, p \in {fma(ar2, q, p12)} })
        : ar3 \in {mul(r, ar2)}, lo3 \in {fma(ar, r, RNeg(ar2))},
          hi \in {add(t2, ar2)}, q \in {fma(p56, ar2, p34)} })
        : ar2 \in {mul(r, ar)}, lo2 \in {add(sub(t1, t2), r)} })
        : ar \in {mul(r, A[1])}, p12 \in {fma(r, A[3], A[2])}, p34 \in {fma(r, A[5], A[4])},
          p56 \in {fma(r, A[7], A[6])}, t2 \in {add(r, t1)} })
        : t1 \in {fma(Ln2hi, kd, T.logc)},
          lo1 \in {fma(Ln2lo, kd, T.logctail)},
          r \in {fma(z, T.invc, RNeg(One))} })

\* log_inline of pow.c for x > 0: x = 2 ** k * z, where the bits of ix - OFF
\* give k and the subinterval i of z
log_inline(x0) ==
    The({ The({ The({ LogOf(Scaled(x, -k), IntToReal(k), data.tab[i + 1], data.poly,
                            data.ln2hi, data.ln2lo)
                      : k \in {TopBit(x) + (t \div (2 ^ POW_LOG_TABLE_BITS))},
                        i \in {t % (2 ^ POW_LOG_TABLE_BITS)} })
                : t \in {OffsetBits(x)} })
          : x \in {x0}, data \in {pow_log_data} })

\* specialcase of pow.c for a result below 2 ** -738: scale is taken
\* 2 ** 1022 times larger, and a sum below 1.0 is rounded as the subnormal
\* that it becomes
specialcase(tmp0, scale0) ==
    The({ The({ The({ IF RGe(y, One) THEN Scaled(y, -1022)
                      ELSE The({ Scaled(sub(add(hi, add(add(sub(One, hi), y),
                                                          add(sub(scale, y), st))),
                                             One), -1022)
                                 : hi \in {add(y, One)} })
                      : y \in {add(scale, st)} })
                : st \in {mul(scale, tmp)} })
          : tmp \in {tmp0}, scale \in {Scaled(scale0, 1022)} })

\* exp_inline of pow.c after its reduction: the exponential of x + xtail for
\* kd = k, the integer nearest to x * N / ln 2; C is the polynomial and T the
\* entry of k % N of data, the __exp_data
ExpOf(x, xtail, kd, k, T, C, data) ==
    The({ The({ The({ IF x.neg /\ TopBit(x) >= 9 THEN specialcase(tmp, scale)
                      ELSE fma(tmp, scale, scale)
        : tmp \in {fma(c45, mul(r2, r2), fma(c23, r2, tr))},
          scale \in {Scaled(T.scale, k \div (2 ^ EXP_TABLE_BITS))} })
        : r2 \in {mul(r, r)}, c23 \in {fma(r, C[2], C[1])}, c45 \in {fma(r, C[4], C[3])},
          tr \in {add(r, T.tail)} })
        : r \in {add(xtail, fma(kd, data.negln2loN, fma(kd, data.negln2hiN, x)))} })

\* exp_inline of pow.c: 1.0 for an x below 2 ** -54, 0.0 for an x of -1024
\* or less
exp_inline(x0, xtail0) ==
    The({ IF x.mant = <<>> \/ TopBit(x) < -54 THEN add(One, x)
          ELSE IF x.neg /\ TopBit(x) >= 10 THEN Zero
          ELSE The({ The({ The({ ExpOf(x, xtail, kd, k, data.tab[(k % (2 ^ EXP_TABLE_BITS)) + 1],
                                       data.poly, data)
                                 : k \in {IntOfDouble(kd)} })
                           : kd \in {sub(fma(x, data.invln2N, data.shift), data.shift)} })
                     : data \in {exp_data} })
          : x \in {x0}, xtail \in {xtail0} })

\* pow(x, y) of the C library for x > 0 other than 1 and y # 0
pow(x0, y0) ==
    The({ The({ The({ exp_inline(ehi, fma(y, l[2], fma(l[1], y, RNeg(ehi))))
                      : ehi \in {mul(y, l[1])} })
                : l \in {log_inline(x)} })
          : x \in {x0}, y \in {y0} })

\* pow of the C library and the operations of the processor that it is
\* compiled to, by name
libm(f, x, y, z) ==
    CASE f = "fma" -> Fma(x, y, z)
      [] f = "add" -> RAdd(x, y)
      [] f = "sub" -> RSub(x, y)
      [] f = "mul" -> RMul(x, y)
      [] f = "pow" -> pow(x, y)

\* b ** e for an integer e, as float_pow of CPython: the powers of 0 and 1
\* are settled before pow and the power of a negative base is that of its
\* magnitude, negated for an odd e; for e < 0 the base is not 0 (the code
\* raises ZeroDivisionError for 0.0 ** negative)
RPow(b0, e0) ==
    The({ IF e = 0 THEN One
          ELSE IF b.mant = <<>> THEN Zero
          ELSE IF b.mant = <<1>> /\ b.exp = 0
          THEN (IF b.neg /\ e % 2 = 1 THEN RNeg(One) ELSE One)
          ELSE The({ IF b.neg /\ e % 2 = 1 THEN RNeg(p) ELSE p
                     : p \in {libm("pow", [b EXCEPT !.neg = FALSE], IntToReal(e), Zero)} })
          : b \in {b0}, e \in {e0} })

\* 1 + x
OnePlus(x) == RAdd(One, x)

(***************************************************************************)
(* The projection engine of src/coast-fire.py.                             *)
(***************************************************************************)
NoError == "none"

\* validate_inputs with retirement_age < current_age in place of <=, against
\* which the boundary retirement_age = current_age of C1 is tested
validate_inputs_strict_age(inputs) ==
    IF inputs.current_age < 0
    THEN "current_age must be non-negative"
    ELSE IF inputs.retirement_age < inputs.current_age
    THEN "retirement_age must be greater than current_age"
    ELSE IF RLt(inputs.current_investment, Zero)
    THEN "current_investment must be non-negative"
    ELSE IF RLt(inputs.expected_annual_return, IntToReal(-1))
    THEN "expected_annual_return must be greater than -100%"
    ELSE IF RLt(inputs.expected_monthly_expense_at_retirement, Zero)
    THEN "expected_monthly_expense_at_retirement must be non-negative"
    ELSE IF RLt(inputs.inflation_rate, Zero)
    THEN "inflation_rate must be non-negative"
    ELSE NoError

\* validate_inputs without the check of retirement_age against current_age,
\* against which the horizon of at least one year of C23 is tested
validate_inputs_no_horizon_check(inputs) ==
    IF inputs.current_age < 0
    THEN "current_age must be non-negative"
    ELSE IF RLt(inputs.current_investment, Zero)
    THEN "current_investment must be non-negative"
    ELSE IF RLt(inputs.expected_annual_return, IntToReal(-1))
    THEN "expected_annual_return must be greater than -100%"
    ELSE IF RLt(inputs.expected_monthly_expense_at_retirement, Zero)
    THEN "expected_monthly_expense_at_retirement must be non-negative"
    ELSE IF RLt(inputs.inflation_rate, Zero)
    THEN "inflation_rate must be non-negative"
    ELSE NoError

\* validate_inputs without the check of the monthly expense, against which
\* the non-negative amounts of C11 are tested
validate_inputs_no_expense_check(inputs) ==
    IF inputs.current_age < 0
    THEN "current_age must be non-negative"
    ELSE IF inputs.retirement_age <= inputs.current_age
    THEN "retirement_age must be greater than current_age"
    ELSE IF RLt(inputs.current_investment, Zero)
    THEN "current_investment must be non-negative"
    ELSE IF RLt(inputs.expected_annual_return, IntToReal(-1))
    THEN "expected_annual_return must be greater than -100%"
    ELSE IF RLt(inputs.inflation_rate, Zero)
    THEN "inflation_rate must be non-negative"
    ELSE NoError

\* validate_inputs: the message of the ValueError it raises, or NoError
validate_inputs(inputs) ==
    IF inputs.current_age < 0
    THEN "current_age must be non-negative"
    ELSE IF inputs.retirement_age <= inputs.current_age
    THEN "retirement_age must be greater than current_age"
    ELSE IF RLt(inputs.current_investment, Zero)
    THEN "current_investment must be non-negative"
    ELSE IF RLt(inputs.expected_annual_return, IntToReal(-1))
    THEN "expected_annual_return must be greater than -100%"
    ELSE IF RLt(inputs.expected_monthly_expense_at_retirement, Zero)
    THEN "expected_monthly_expense_at_retirement must be non-negative"
    ELSE IF RLt(inputs.inflation_rate, Zero)
    THEN "inflation_rate must be non-negative"
    ELSE NoError

calculate_years_to_grow(current_age, retirement_age) == retirement_age - current_age

\* the annual expense with simple inflation (1 + rate * years) in place of
\* compound inflation, against which the figures of C19 are tested
calculate_annual_expense_at_retirement_simple_inflation(monthly_expense, inflation_rate, years_to_grow) ==
    RMul(RMul(monthly_expense, IntToReal(12)),
         RAdd(One, RMul(inflation_rate, IntToReal(years_to_grow))))

calculate_annual_expense_at_retirement(monthly_expense, inflation_rate, years_to_grow) ==
    RMul(RMul(monthly_expense, IntToReal(12)),
         RPow(OnePlus(inflation_rate), years_to_grow))

\* a withdrawal rate of 5%, against which the factor 25 of C10 is tested
WITHDRAWAL_RATE_FIVE_PERCENT == Real(5, 100)

SAFE_WITHDRAWAL_RATE == Real(4, 100)

calculate_fire_number(annual_expense_at_retirement) ==
    RDiv(annual_expense_at_retirement, SAFE_WITHDRAWAL_RATE)

\* the future value with (1 + annual_return) * years in place of the power
\* and without the return for years == 0, against which the identities of
\* C16 are tested
calculate_future_value_linear(present_value, annual_return, years) ==
    RMul(present_value, RMul(RAdd(One, annual_return), IntToReal(years)))

calculate_future_value(present_value, annual_return, years) ==
    IF years = 0
    THEN present_value
    ELSE RMul(present_value, RPow(OnePlus(annual_return), years))

\* step 5 with future_value > fire_number_required in place of >=, against
\* which the boundary future value = FIRE number of C9 is tested
Step5_strict(years_to_grow, annual_expense, fire_number_required, future_value) ==
    The({ [years_to_grow |-> years_to_grow,
           annual_expense_at_retirement |-> annual_expense,
           fire_number_required |-> target,
           future_value_at_retirement |-> fv,
           surplus_or_shortfall |-> RSub(fv, target),
           has_achieved_coast_fire |-> RGt(fv, target)]
          : target \in {fire_number_required}, fv \in {future_value} })

\* calculate_coast_fire, step 5 and the CoastFIREResult returned
Step5(years_to_grow, annual_expense, fire_number_required, future_value) ==
    The({ [years_to_grow |-> years_to_grow,
           annual_expense_at_retirement |-> annual_expense,
           fire_number_required |-> target,
           future_value_at_retirement |-> fv,
           surplus_or_shortfall |-> RSub(fv, target),
           has_achieved_coast_fire |-> RGe(fv, target)]
          : target \in {fire_number_required}, fv \in {future_value} })

\* calculate_coast_fire, steps 3 and 4
Steps3And4(inputs, years_to_grow, annual_expense_at_retirement) ==
    The({ Step5(years_to_grow, annual_expense,
                calculate_fire_number(annual_expense),
                calculate_future_value(inputs.current_investment,
                                       inputs.expected_annual_return, years_to_grow))
          : annual_expense \in {annual_expense_at_retirement} })

\* calculate_coast_fire, step 2
Step2(inputs, years_to_grow) ==
    Steps3And4(inputs, years_to_grow,
               calculate_annual_expense_at_retirement(
                   inputs.expected_monthly_expense_at_retirement,
                   inputs.inflation_rate, years_to_grow))

\* calculate_coast_fire after validation: the CoastFIREResult
CoastFIREResult(inputs) ==
    Step2(inputs, calculate_years_to_grow(inputs.current_age, inputs.retirement_age))

\* the average return without the floor of the final return at 0, against
\* which the bound x / 2 of C15 is tested
calculate_average_return_no_floor(initial_return, annual_decrease, years) ==
    IF years = 0
    THEN initial_return
    ELSE The({ RDiv(RAdd(x, RSub(x, RMul(IntToReal(years - 1), annual_decrease))),
                    IntToReal(2)) : x \in {initial_return} })

calculate_average_return(initial_return, annual_decrease, years) ==
    IF years = 0
    THEN initial_return
    ELSE The({ RDiv(RAdd(x, RMax(RSub(x, RMul(IntToReal(years - 1), annual_decrease)),
                                 Zero)),
                    IntToReal(2)) : x \in {initial_return} })

\* monthly_investment times the future-value factor of an annuity at the
\* rate monthly_return over total_months, or times total_months at rate 0
Annuity(monthly_investment, monthly_return, total_months) ==
    The({ IF REq(r, Zero)
          THEN RMul(monthly_investment, IntToReal(total_months))
          ELSE RMul(monthly_investment,
                    RDiv(RSub(RPow(OnePlus(r), total_months), One), r))
          : r \in {monthly_return} })

\* the accumulation with one contribution already made at current_age, in
\* place of 0 for years_to_invest == 0, against which the leftmost candidate
\* of C26 is tested
Accumulated_first_contribution_made(monthly_investment, avg_return_phase1, years_to_invest) ==
    IF years_to_invest = 0
    THEN monthly_investment
    ELSE Annuity(monthly_investment, RDiv(avg_return_phase1, IntToReal(12)),
                 years_to_invest * 12)

\* future value of the monthly investments made over years_to_invest years
\* at the average return avg_return_phase1 (the accumulation of the solver)
Accumulated(monthly_investment, avg_return_phase1, years_to_invest) ==
    IF years_to_invest = 0
    THEN Zero
    ELSE Annuity(monthly_investment, RDiv(avg_return_phase1, IntToReal(12)),
                 years_to_invest * 12)

\* the return at the end of phase 1, max(initial_return - (years_to_invest
\* - 1) * annual_return_decrease, 0), in place of the return at the start of
\* phase 2, against which the reference composition of C24 is tested
StartingReturnPhase2_end_of_phase1(initial_return, annual_return_decrease, years_to_invest) ==
    RMax(RSub(initial_return,
              RMul(IntToReal(years_to_invest - 1), annual_return_decrease)),
         Zero)

\* max(initial_return - years_to_invest * annual_return_decrease, 0)
StartingReturnPhase2(initial_return, annual_return_decrease, years_to_invest) ==
    RMax(RSub(initial_return, RMul(IntToReal(years_to_invest), annual_return_decrease)),
         Zero)

\* the body of the loop of calculate_coast_fire_age for one test_age: the
\* value at retirement of investing until test_age and growing afterwards
CandidateFutureValue(a, test_age) ==
    calculate_future_value(
        Accumulated(a.monthly_investment,
                    calculate_average_return(a.initial_return, a.annual_return_decrease,
                                             test_age - a.current_age),
                    test_age - a.current_age),
        calculate_average_return(
            StartingReturnPhase2(a.initial_return, a.annual_return_decrease,
                                 test_age - a.current_age),
            a.annual_return_decrease, a.retirement_age - test_age),
        a.retirement_age - test_age)

\* an exception raised in place of a returned value
Raised(exception) == [raised |-> exception]

\* v is a number, not None and not an exception
IsReal(v) == DOMAIN v = {"neg", "mant", "exp"}

\* ((1 + monthly_return) ** total_months - 1) / monthly_return
FvFactor(monthly_return, total_months) ==
    The({ RDiv(RSub(RPow(OnePlus(r), total_months), One), r) : r \in {monthly_return} })

\* fire_number_required / fv_factor, which raises for a factor of 0
RequiredForFactor(fire_number_required, fv_factor0) ==
    The({ IF REq(fv_factor, Zero)
          THEN Raised("ZeroDivisionError")
          ELSE RDiv(fire_number_required, fv_factor) : fv_factor \in {fv_factor0} })

\* calculate_required_monthly_investment after the conversion to months;
\* 0.0 ** negative raises as well
RequiredMonthly(fire_number_required, monthly_return, total_months) ==
    The({ IF REq(r, Zero)
          THEN (IF total_months = 0
                THEN Raised("ZeroDivisionError")
                ELSE RDiv(fire_number_required, IntToReal(total_months)))
          ELSE IF total_months < 0 /\ REq(RAdd(One, r), Zero)
          THEN Raised("ZeroDivisionError")
          ELSE RequiredForFactor(fire_number_required, FvFactor(r, total_months))
          : r \in {monthly_return} })

\* calculate_required_monthly_investment without its return for
\* years_to_grow == 0, against which the zero without a division of C18 is
\* tested
calculate_required_monthly_investment_no_zero_years(fire_number_required, annual_return, years_to_grow) ==
    RequiredMonthly(fire_number_required, RDiv(annual_return, IntToReal(12)),
                    years_to_grow * 12)

calculate_required_monthly_investment(fire_number_required, annual_return, years_to_grow) ==
    IF years_to_grow = 0
    THEN Zero
    ELSE RequiredMonthly(fire_number_required, RDiv(annual_return, IntToReal(12)),
                         years_to_grow * 12)

\* calculate_coast_fire as a caller sees it: the ValueError of validate_inputs
\* or the CoastFIREResult
calculate_coast_fire(inputs) ==
    IF validate_inputs(inputs) # NoError
    THEN Raised(validate_inputs(inputs))
    ELSE CoastFIREResult(inputs)

(***************************************************************************)
(* main() of src/coast-fire.py and main() of src/main.py: the values typed *)
(* at the prompts.                                                         *)
(***************************************************************************)
MaxAge == 6

Choices == {"1", "2", "3"}
CurrentAges == {-1, 1}
RetirementAges == -1 .. MaxAge
InitialReturns == {Real(-24, 1), Real(-2, 1), Zero, Real(12, 1)}
ReturnDecreases == {Zero, Real(6, 1)}
MonthlyExpenses == {Real(-1, 1), Zero, Real(1, 10), Real(3400, 1)}
InflationRates == {Real(-1, 1), Zero, One}
CurrentInvestments == {Real(-1, 1), Zero, Real(1020000, 1)}
MonthlyInvestments == {Zero, One}

\* the annual returns typed at the prompt of main() of src/main.py
AnnualReturns == {Real(-12, 1), Real(-1, 1), Zero, Real(7, 100)}

\* a variable that holds no value yet
None == [none |-> TRUE]

VARIABLES
    pc,             \* position in main()
    choice,         \* the mode typed at the first prompt
    prompt,         \* the values typed at the common prompts
    fire_number,    \* fire_number of main()
    user_inputs,    \* the CoastFIREInput of mode 1
    user_result,    \* the CoastFIREResult of mode 1
    error,          \* the exception raised, NoError if none
    call,           \* the arguments of calculate_coast_fire_age
    test_age,       \* the loop variable of calculate_coast_fire_age
    evaluated,      \* the candidates evaluated so far, with their future value
    coast_fire_age, \* the value returned by calculate_coast_fire_age
    printed,        \* what main() has printed
    applied,        \* the function of the library applied last outside main(),
                    \* with its arguments and what it returned or raised
    main_py         \* main() of src/main.py: its position, the mode and the
                    \* values typed, its local variables, the exception it
                    \* raised and what it has printed

vars == <<pc, choice, prompt, fire_number, user_inputs, user_result, error,
          call, test_age, evaluated, coast_fire_age, printed, applied, main_py>>

Init ==
    /\ pc = "start"
    /\ choice = "unset"
    /\ prompt = None
    /\ fire_number = None
    /\ user_inputs = None
    /\ user_result = None
    /\ error = NoError
    /\ call = None
    /\ test_age = None
    /\ evaluated = <<>>
    /\ coast_fire_age = None
    /\ printed = <<>>
    /\ applied = None
    /\ main_py = [pc |-> "start", choice |-> "unset", prompt |-> None,
                  locals |-> None, error |-> NoError, printed |-> <<>>]

\* fire_number as main() computes it for both modes
MainFireNumber(p) ==
    RDiv(RMul(RMul(p.monthly_expense, IntToReal(12)),
              RPow(OnePlus(p.inflation_rate), p.retirement_age - p.current_age)),
         Real(4, 100))

\* 0.0 ** negative raises ZeroDivisionError, which main() does not catch
MainFireNumberRaises(p) ==
    /\ p.retirement_age - p.current_age < 0
    /\ REq(RAdd(One, p.inflation_rate), Zero)

\* the prompts common to both modes and the computation of fire_number
MainPrompt ==
    /\ pc = "start"
    /\ main_py.pc = "start"
    /\ \E ch \in Choices, ca \in CurrentAges, ra \in RetirementAges,
          ir \in InitialReturns, ard \in ReturnDecreases,
          me \in MonthlyExpenses, inf \in InflationRates :
          LET p == [current_age |-> ca, retirement_age |-> ra,
                    initial_return |-> ir, annual_return_decrease |-> ard,
                    monthly_expense |-> me, inflation_rate |-> inf]
          IN  /\ choice' = ch
              /\ prompt' = p
              /\ IF MainFireNumberRaises(p)
                 THEN /\ pc' = "crashed"
                      /\ error' = "ZeroDivisionError"
                      /\ fire_number' = None
                 ELSE /\ pc' = "prompted"
                      /\ error' = NoError
                      /\ fire_number' = MainFireNumber(p)
    /\ UNCHANGED <<user_inputs, user_result, call, test_age, evaluated,
                   coast_fire_age, printed,
                   applied, main_py>>

\* mode 1: the CoastFIREInput record is built; the NamedTuple checks nothing
Construct ==
    /\ pc = "prompted"
    /\ choice = "1"
    /\ \E current_investment \in CurrentInvestments :
          user_inputs' =
              [current_age |-> prompt.current_age,
               retirement_age |-> prompt.retirement_age,
               current_investment |-> current_investment,
               expected_annual_return |->
                   calculate_average_return(
                       prompt.initial_return, prompt.annual_return_decrease,
                       prompt.retirement_age - prompt.current_age),
               expected_monthly_expense_at_retirement |-> prompt.monthly_expense,
               inflation_rate |-> prompt.inflation_rate]
    /\ pc' = "constructed"
    /\ UNCHANGED <<choice, prompt, fire_number, user_result, error, call,
                   test_age, evaluated, coast_fire_age, printed,
                   applied, main_py>>

\* calculate_coast_fire, first statement: validate_inputs(inputs)
Validate ==
    /\ pc = "constructed"
    /\ error' = validate_inputs(user_inputs)
    /\ pc' = IF error' # NoError THEN "raised" ELSE "validated"
    /\ UNCHANGED <<choice, prompt, fire_number, user_inputs, user_result, call,
                   test_age, evaluated, coast_fire_age, printed,
                   applied, main_py>>

\* calculate_coast_fire, steps 1 to 5 and the return
Project ==
    /\ pc = "validated"
    /\ user_result' = CoastFIREResult(user_inputs)
    /\ pc' = "returned"
    /\ UNCHANGED <<choice, prompt, fire_number, user_inputs, error, call,
                   test_age, evaluated, coast_fire_age, printed,
                   applied, main_py>>

\* mode 1 after the return: the report and the return schedule
PrintReport ==
    /\ pc = "returned"
    /\ printed' = printed \o <<[title |-> "COAST FIRE ANALYSIS REPORT"],
                             [title |-> "Return Schedule"]>>
    /\ pc' = "done"
    /\ UNCHANGED <<choice, prompt, fire_number, user_inputs, user_result, error,
                   call, test_age, evaluated, coast_fire_age,
                   applied, main_py>>

\* except ValueError as e: print(f"Invalid input: {e}")
ExceptValueError ==
    /\ pc = "raised"
    /\ printed' = Append(printed, [title |-> "Invalid input", message |-> error])
    /\ pc' = "done"
    /\ UNCHANGED <<choice, prompt, fire_number, user_inputs, user_result, error,
                   call, test_age, evaluated, coast_fire_age,
                   applied, main_py>>

\* a choice other than "1" and "2": main() ends without printing a result
NoMode ==
    /\ pc = "prompted"
    /\ choice \notin {"1", "2"}
    /\ pc' = "done"
    /\ UNCHANGED <<choice, prompt, fire_number, user_inputs, user_result, error,
                   call, test_age, evaluated, coast_fire_age, printed,
                   applied, main_py>>


(***************************************************************************)
(* Mode 2: calculate_coast_fire_age and its report.                        *)
(***************************************************************************)
\* a range that starts one year late, against which the ascending scan from
\* current_age of C4 is tested
RangeStart_late(a) == a.current_age + 1

\* the first age of range(current_age, retirement_age + 1)
RangeStart(a) == a.current_age

\* the last age of range(current_age, retirement_age + 1)
RangeLast(a) == a.retirement_age

\* mode 2: the call of calculate_coast_fire_age, up to the start of its loop
CallCoastFireAge ==
    /\ pc = "prompted"
    /\ choice = "2"
    /\ \E monthly_investment \in MonthlyInvestments :
          call' = [current_age |-> prompt.current_age,
                   retirement_age |-> prompt.retirement_age,
                   monthly_investment |-> monthly_investment,
                   initial_return |-> prompt.initial_return,
                   annual_return_decrease |-> prompt.annual_return_decrease,
                   fire_number |-> fire_number]
    /\ test_age' = RangeStart(call')
    /\ evaluated' = <<>>
    /\ pc' = "searching"
    /\ UNCHANGED <<choice, prompt, fire_number, user_inputs, user_result, error,
                   coast_fire_age, printed,
                   applied, main_py>>

\* one iteration of the loop: the candidate test_age is evaluated and is
\* returned if its future value reaches fire_number
LoopEvaluate ==
    /\ pc = "searching"
    /\ test_age <= RangeLast(call)
    /\ evaluated' = Append(evaluated,
                            [test_age |-> test_age,
                             future_value |-> CandidateFutureValue(call, test_age)])
    /\ IF RGe(evaluated'[Len(evaluated')].future_value, call.fire_number)
       THEN /\ coast_fire_age' = test_age
            /\ test_age' = test_age
            /\ pc' = "solved"
       ELSE /\ coast_fire_age' = coast_fire_age
            /\ test_age' = test_age + 1
            /\ pc' = "searching"
    /\ UNCHANGED <<choice, prompt, fire_number, user_inputs, user_result, error,
                   call, printed,
                   applied, main_py>>

\* the range is exhausted: return retirement_age
LoopExhausted ==
    /\ pc = "searching"
    /\ test_age > RangeLast(call)
    /\ coast_fire_age' = call.retirement_age
    /\ pc' = "solved"
    /\ UNCHANGED <<choice, prompt, fire_number, user_inputs, user_result, error,
                   call, test_age, evaluated, printed,
                   applied, main_py>>

\* print_coast_fire_age_report: accumulated, recomputed for coast_fire_age
ReportAccumulated(a, age) ==
    Accumulated(a.monthly_investment,
                calculate_average_return(a.initial_return, a.annual_return_decrease,
                                         age - a.current_age),
                age - a.current_age)

\* print_coast_fire_age_report: future_value, recomputed for coast_fire_age
ReportFutureValue(a, age) ==
    calculate_future_value(
        ReportAccumulated(a, age),
        calculate_average_return(
            StartingReturnPhase2(a.initial_return, a.annual_return_decrease,
                                 age - a.current_age),
            a.annual_return_decrease, a.retirement_age - age),
        a.retirement_age - age)

\* (1 + monthly_return) ** total_months raises ZeroDivisionError for a zero
\* base and a negative number of months
ReportRaises(a, age) ==
    /\ age - a.current_age < 0
    /\ REq(RAdd(One, RDiv(calculate_average_return(a.initial_return,
                                                   a.annual_return_decrease,
                                                   age - a.current_age),
                          IntToReal(12))),
           Zero)

\* mode 2 after the return: the report, which states the returned age as the
\* age at which Coast FIRE is achieved. Where the recomputation of accumulated
\* raises, the title, the parameters and the result with the returned age are
\* printed already, and accumulated and future_value are not
PrintAgeReport ==
    /\ pc = "solved"
    /\ IF ReportRaises(call, coast_fire_age)
       THEN /\ pc' = "crashed"
            /\ error' = "ZeroDivisionError"
            /\ printed' = Append(printed,
                   [title |-> "COAST FIRE AGE CALCULATOR",
                    coast_fire_age |-> coast_fire_age,
                    years_to_invest |-> coast_fire_age - call.current_age,
                    years_to_grow_after |-> call.retirement_age - coast_fire_age])
       ELSE /\ pc' = "done"
            /\ error' = error
            /\ printed' = Append(printed,
                   [title |-> "COAST FIRE AGE CALCULATOR",
                    coast_fire_age |-> coast_fire_age,
                    years_to_invest |-> coast_fire_age - call.current_age,
                    years_to_grow_after |-> call.retirement_age - coast_fire_age,
                    accumulated |-> ReportAccumulated(call, coast_fire_age),
                    future_value |-> ReportFutureValue(call, coast_fire_age)])
    /\ UNCHANGED <<choice, prompt, fire_number, user_inputs, user_result, call,
                   test_age, evaluated, coast_fire_age,
                   applied, main_py>>

(***************************************************************************)
(* main() of src/main.py: the check of a lump sum (mode 1), the monthly    *)
(* investment that reaches the FIRE number (mode 2) and the plan that      *)
(* stops investing at a Coast FIRE age (mode 3).  It runs on its own: the  *)
(* variables of main() of src/coast-fire.py keep their initial values.     *)
(* An exception other than ValueError is not caught and ends main().       *)
(***************************************************************************)
\* lines 318-324: the prompts common to the three modes
MainPyPrompt ==
    /\ pc = "start"
    /\ main_py.pc = "start"
    /\ \E ch \in Choices \cup {"4"}, ca \in {1}, ra \in RetirementAges,
          ar \in AnnualReturns, me \in {Zero, Real(3400, 1)},
          inf \in InflationRates :
          main_py' = [main_py EXCEPT
                         !.pc = "prompted",
                         !.choice = ch,
                         !.prompt = [current_age |-> ca, retirement_age |-> ra,
                                     annual_return |-> ar, monthly_expense |-> me,
                                     inflation_rate |-> inf]]
    /\ UNCHANGED <<pc, choice, prompt, fire_number, user_inputs, user_result,
                   error, call, test_age, evaluated, coast_fire_age, printed,
                   applied>>

\* mode 1, lines 326-340: the CoastFIREInput, which checks nothing, and the
\* report of the result of calculate_coast_fire, or lines 484-485 with the
\* message of the ValueError it raised
MainPyMode1 ==
    /\ main_py.pc = "prompted"
    /\ main_py.choice = "1"
    /\ \E current_investment \in CurrentInvestments :
          main_py' =
              The({ The({ IF DOMAIN result = {"raised"}
                          THEN [main_py EXCEPT
                                   !.pc = "done",
                                   !.error = result.raised,
                                   !.locals = [user_inputs |-> inputs,
                                               user_result |-> None],
                                   !.printed = <<[title |-> "Invalid input",
                                                  message |-> result.raised]>>]
                          ELSE [main_py EXCEPT
                                   !.pc = "done",
                                   !.locals = [user_inputs |-> inputs,
                                               user_result |-> result],
                                   !.printed = <<[title |-> "COAST FIRE ANALYSIS REPORT"]>>]
                          : result \in {calculate_coast_fire(inputs)} })
                    : inputs \in {[current_age |-> main_py.prompt.current_age,
                                   retirement_age |-> main_py.prompt.retirement_age,
                                   current_investment |-> current_investment,
                                   expected_annual_return |-> main_py.prompt.annual_return,
                                   expected_monthly_expense_at_retirement |->
                                       main_py.prompt.monthly_expense,
                                   inflation_rate |-> main_py.prompt.inflation_rate]} })
    /\ UNCHANGED <<pc, choice, prompt, fire_number, user_inputs, user_result,
                   error, call, test_age, evaluated, coast_fire_age, printed,
                   applied>>

\* fire_number of mode 2 (lines 348-351) and of mode 3 (lines 425-428)
MainPyFireNumber(p) ==
    RDiv(RMul(RMul(p.monthly_expense, IntToReal(12)),
              RPow(OnePlus(p.inflation_rate), p.retirement_age - p.current_age)),
         Real(4, 100))

\* mode 2, lines 342-407.  (1 + inflation_rate) ** years_to_grow of line 349
\* and (1 + annual_return) ** years of calculate_future_value raise
\* ZeroDivisionError for a base of 0 and years_to_grow < 0, and
\* calculate_required_monthly_investment raises it where it divides by 0
MainPyMode2 ==
    /\ main_py.pc = "prompted"
    /\ main_py.choice = "2"
    /\ \E current_investment \in CurrentInvestments :
          main_py' =
              The({ IF /\ years_to_grow < 0
                       /\ \/ REq(OnePlus(p.inflation_rate), Zero)
                          \/ REq(OnePlus(p.annual_return), Zero)
                    THEN [main_py EXCEPT !.pc = "crashed", !.error = "ZeroDivisionError"]
                    ELSE The({ The({ IF ~IsReal(required_monthly)
                                     THEN [main_py EXCEPT !.pc = "crashed",
                                                          !.error = required_monthly.raised]
                                     ELSE [main_py EXCEPT
                                              !.pc = "done",
                                              !.locals =
                                                  [current_investment |-> current_investment,
                                                   years_to_grow |-> years_to_grow,
                                                   fire_number |-> target,
                                                   current_future_value |-> current_future_value,
                                                   required_monthly |-> required_monthly,
                                                   shortfall |-> RSub(target, current_future_value)],
                                              !.printed =
                                                  <<[title |-> "COAST FIRE ANALYSIS + MONTHLY INVESTMENT CALCULATOR",
                                                     achieved |-> RGe(current_future_value, target)]>>]
                                     : required_monthly \in
                                           {calculate_required_monthly_investment(
                                                target, p.annual_return, years_to_grow)} })
                               : target \in {MainPyFireNumber(p)},
                                 current_future_value \in
                                     {calculate_future_value(current_investment,
                                                             p.annual_return, years_to_grow)} })
                    : p \in {main_py.prompt},
                      years_to_grow \in {main_py.prompt.retirement_age
                                         - main_py.prompt.current_age} })
    /\ UNCHANGED <<pc, choice, prompt, fire_number, user_inputs, user_result,
                   error, call, test_age, evaluated, coast_fire_age, printed,
                   applied>>

\* mode 3, lines 409-482: the two checks of the age typed, each of which
\* prints an error and returns, fire_number, the amount that grows to it from
\* the age typed, and required_monthly.  The division of line 438 raises
\* ZeroDivisionError for a growth of 0.0, and
\* calculate_required_monthly_investment where it divides by 0
MainPyMode3 ==
    /\ main_py.pc = "prompted"
    /\ main_py.choice = "3"
    /\ \E stop_age \in 0 .. MaxAge :
          main_py' =
              IF stop_age <= main_py.prompt.current_age
              THEN [main_py EXCEPT
                       !.pc = "done",
                       !.locals = [coast_fire_age |-> stop_age],
                       !.printed =
                           <<[title |-> "Error",
                              message |-> "Coast FIRE age must be greater than current age"]>>]
              ELSE IF stop_age > main_py.prompt.retirement_age
              THEN [main_py EXCEPT
                       !.pc = "done",
                       !.locals = [coast_fire_age |-> stop_age],
                       !.printed =
                           <<[title |-> "Error",
                              message |-> "Coast FIRE age must be before retirement age"]>>]
              ELSE The({ The({ IF ~IsReal(amount)
                               THEN [main_py EXCEPT !.pc = "crashed", !.error = amount.raised]
                               ELSE The({ IF ~IsReal(required_monthly)
                                          THEN [main_py EXCEPT
                                                   !.pc = "crashed",
                                                   !.error = required_monthly.raised]
                                          ELSE [main_py EXCEPT
                                                   !.pc = "done",
                                                   !.locals =
                                                       [coast_fire_age |-> stop_age,
                                                        years_to_invest |-> years_to_invest,
                                                        years_to_grow_after |-> years_to_grow_after,
                                                        fire_number |-> target,
                                                        amount_at_coast_fire_age |-> amount,
                                                        required_monthly |-> required_monthly],
                                                   !.printed =
                                                       <<[title |-> "COAST FIRE PLANNING CALCULATOR"]>>]
                                          : required_monthly \in
                                                {calculate_required_monthly_investment(
                                                     amount, main_py.prompt.annual_return,
                                                     years_to_invest)} })
                               : amount \in
                                     {IF years_to_grow_after = 0
                                      THEN target
                                      ELSE The({ IF REq(growth, Zero)
                                                 THEN Raised("ZeroDivisionError")
                                                 ELSE RDiv(target, growth)
                                                 : growth \in
                                                       {RPow(OnePlus(main_py.prompt.annual_return),
                                                             years_to_grow_after)} })} })
                         : target \in {MainPyFireNumber(main_py.prompt)},
                           years_to_invest \in {stop_age - main_py.prompt.current_age},
                           years_to_grow_after \in {main_py.prompt.retirement_age - stop_age} })
    /\ UNCHANGED <<pc, choice, prompt, fire_number, user_inputs, user_result,
                   error, call, test_age, evaluated, coast_fire_age, printed,
                   applied>>

\* a choice other than "1", "2" and "3": main() ends without a result
MainPyNoMode ==
    /\ main_py.pc = "prompted"
    /\ main_py.choice \notin {"1", "2", "3"}
    /\ main_py' = [main_py EXCEPT !.pc = "done"]
    /\ UNCHANGED <<pc, choice, prompt, fire_number, user_inputs, user_result,
                   error, call, test_age, evaluated, coast_fire_age, printed,
                   applied>>

Next ==
    \/ MainPrompt
    \/ Construct
    \/ Validate
    \/ Project
    \/ PrintReport
    \/ ExceptValueError
    \/ NoMode
    \/ CallCoastFireAge
    \/ LoopEvaluate
    \/ LoopExhausted
    \/ PrintAgeReport
    \/ MainPyPrompt
    \/ MainPyMode1
    \/ MainPyMode2
    \/ MainPyMode3
    \/ MainPyNoMode

Spec == Init /\ [][Next]_vars

(***************************************************************************)
(* The functions of the repository applied on their own, outside main():   *)
(* one application with arguments of the sets below, and the accumulation  *)
(* of the solver fed into calculate_required_monthly_investment.           *)
(***************************************************************************)
\* x * 10000 rounded to an integer, a tie to the even neighbour
TenThousandths(x0) ==
    The({ IF x.exp >= 0
          THEN NatShiftLeft(NatMul(x.mant, NatOfInt(10000)), x.exp)
          ELSE RoundHalfEven(NatMul(x.mant, NatOfInt(10000)), -x.exp) : x \in {x0} })

\* round(x, 4): the double nearest to x rounded to 4 decimal places
Round4(x0) ==
    The({ IF x.mant = <<>> THEN x
          ELSE DoubleOfQuotient(x.neg, TenThousandths(x), NatOfInt(10000), 0) : x \in {x0} })

\* src/PEGY.py, calculate_pegy after denominator = growth + dividend + buffer
PegyOfDenominator(pe, denominator0) ==
    The({ IF RLe(pe, Zero) \/ RLe(denominator, Zero)
          THEN None
          ELSE Round4(RDiv(pe, denominator)) : denominator \in {denominator0} })

\* src/PEGY.py, calculate_pegy: the sum, or the comparison pe <= 0, of an
\* argument that is None raises TypeError
calculate_pegy(pe, profit_growth, dividend_yield, buffer) ==
    IF pe = None \/ profit_growth = None \/ dividend_yield = None
    THEN Raised("TypeError")
    ELSE PegyOfDenominator(pe, RAdd(RAdd(profit_growth, dividend_yield), buffer))

\* src/ex.py and src/sensex-data-extract.py, calculate_pegy after the sum
\* growth + dividend + buffer: the division raises for a sum of 0
UncheckedPegyOfDenominator(pe, denominator0) ==
    The({ IF RLe(pe, Zero)
          THEN None
          ELSE IF REq(denominator, Zero)
          THEN Raised("ZeroDivisionError")
          ELSE Round4(RDiv(pe, denominator)) : denominator \in {denominator0} })

\* src/ex.py, calculate_pegy: None for a value the data source lacks
ex_calculate_pegy(pe, growth, dividend, buffer) ==
    IF pe = None \/ growth = None \/ dividend = None
    THEN None
    ELSE UncheckedPegyOfDenominator(pe, RAdd(RAdd(growth, dividend), buffer))

\* src/sensex-data-extract.py, calculate_pegy: None for a value the data
\* source lacks
sensex_calculate_pegy(pe, growth, dividend, buffer) ==
    IF pe = None \/ growth = None \/ dividend = None
    THEN None
    ELSE UncheckedPegyOfDenominator(pe, RAdd(RAdd(growth, dividend), buffer))

\* calculate_pegy of the file named
PegyOfFile(file, pe, growth, dividend, buffer) ==
    IF file = "src/PEGY.py" THEN calculate_pegy(pe, growth, dividend, buffer)
    ELSE IF file = "src/ex.py" THEN ex_calculate_pegy(pe, growth, dividend, buffer)
    ELSE sensex_calculate_pegy(pe, growth, dividend, buffer)

\* future_value <= fire_number in place of >=, against which the age that
\* never comes earlier for a higher target of C27 is tested
ReachesFireNumber_at_most(future_value, target) == RLe(future_value, target)

\* if future_value >= fire_number
ReachesFireNumber(future_value, target) == RGe(future_value, target)

\* current_age returned in place of retirement_age when no candidate reaches
\* fire_number, against which the age that never comes later for a higher
\* contribution of C28 is tested
FallbackAge_current_age(a) == a.current_age

\* the age returned after the loop: return retirement_age
FallbackAge(a) == a.retirement_age

\* the loop of calculate_coast_fire_age from test_age = age on, and the
\* return after it
RECURSIVE CoastFireAgeFrom(_, _)
CoastFireAgeFrom(a, age) ==
    IF age > RangeLast(a)
    THEN FallbackAge(a)
    ELSE IF ReachesFireNumber(CandidateFutureValue(a, age), a.fire_number)
    THEN age
    ELSE CoastFireAgeFrom(a, age + 1)

\* calculate_coast_fire_age on the record a of its arguments
calculate_coast_fire_age(a) == CoastFireAgeFrom(a, RangeStart(a))

\* 10 ** -18, a rate of return that 1.0 absorbs
TinyRate == RDiv(One, RPow(IntToReal(1000), 6))

\* the arguments of the applications
Rates == InitialReturns \cup {Real(-2, 100), Real(7, 100), TinyRate}
Decreases == ReturnDecreases \cup {Real(1, 100)}
Years == -1 .. MaxAge
Amounts == {Real(-1, 1), Zero, Real(1, 10), Real(250000, 1)}
Contributions == MonthlyInvestments \cup {Real(1000, 1)}
PegyFiles == {"src/PEGY.py", "src/ex.py", "src/sensex-data-extract.py"}
PriceEarnings == {Real(-1, 1), Zero, Real(10, 1), Real(185, 10)}
Growths == {Real(-5, 1), Real(-1, 10), Zero, Real(253, 10)}
Dividends == {Zero, Real(12, 10)}
DefaultBuffer == Real(1, 10)

FireNumbers == {Real(-300, 1), Zero, Real(30, 1), Real(1020000, 1)}
SolverCurrentAges == {1}
SolverRetirementAges == 0 .. MaxAge

\* Scenario A of the specification and inputs that validation rejects
ScenarioA ==
    [current_age |-> 35, retirement_age |-> 60,
     current_investment |-> Real(250000, 1),
     expected_annual_return |-> Real(7, 100),
     expected_monthly_expense_at_retirement |-> Real(4000, 1),
     inflation_rate |-> Real(3, 100)]

Scenarios ==
    {ScenarioA,
     [ScenarioA EXCEPT !.retirement_age = 35],
     [ScenarioA EXCEPT !.current_investment = Real(-1, 1)],
     [ScenarioA EXCEPT !.inflation_rate = Zero]}

mainVars == <<pc, choice, prompt, fire_number, user_inputs, user_result, error,
              call, test_age, evaluated, coast_fire_age, printed, main_py>>

\* one application: the function, its arguments and what it returned or raised
Application(fn, args, ret) == [fn |-> fn, args |-> args, ret |-> ret]

ApplyAverageReturn ==
    /\ applied = None
    /\ \E initial_return \in Rates, annual_decrease \in Decreases, years \in Years :
          applied' = Application(
              "calculate_average_return",
              [initial_return |-> initial_return,
               annual_decrease |-> annual_decrease, years |-> years],
              calculate_average_return(initial_return, annual_decrease, years))
    /\ UNCHANGED mainVars

\* (1 + annual_return) ** years raises for a base of 0 and years < 0
ApplyFutureValue ==
    /\ applied = None
    /\ \E present_value \in Amounts, annual_return \in Rates \cup {IntToReal(-1)},
          years \in Years :
          applied' = Application(
              "calculate_future_value",
              [present_value |-> present_value, annual_return |-> annual_return,
               years |-> years],
              IF years < 0 /\ REq(RAdd(One, annual_return), Zero)
              THEN Raised("ZeroDivisionError")
              ELSE calculate_future_value(present_value, annual_return, years))
    /\ UNCHANGED mainVars

\* the accumulation of calculate_coast_fire_age for years_to_invest years of
\* monthly_investment at the average return avg_return_phase1
ApplyAccumulated ==
    /\ applied = None
    /\ \E monthly_investment \in Contributions, avg_return_phase1 \in Rates,
          years_to_invest \in 0 .. MaxAge :
          applied' = Application(
              "accumulated",
              [monthly_investment |-> monthly_investment,
               avg_return_phase1 |-> avg_return_phase1,
               years_to_invest |-> years_to_invest],
              Accumulated(monthly_investment, avg_return_phase1, years_to_invest))
    /\ UNCHANGED mainVars

ApplyRequiredMonthlyInvestment ==
    /\ applied = None
    /\ \E fire_number_required \in Amounts, annual_return \in Rates,
          years_to_grow \in Years :
          applied' = Application(
              "calculate_required_monthly_investment",
              [fire_number_required |-> fire_number_required,
               annual_return |-> annual_return, years_to_grow |-> years_to_grow],
              calculate_required_monthly_investment(
                  fire_number_required, annual_return, years_to_grow))
    /\ UNCHANGED mainVars

\* the accumulation returned is passed to
\* calculate_required_monthly_investment as its target, with the rate and
\* the years of the accumulation
ApplyRequiredToAccumulated ==
    /\ applied # None
    /\ applied.fn = "accumulated"
    /\ applied' = [fn |-> "calculate_required_monthly_investment",
                   args |-> [fire_number_required |-> applied.ret,
                             annual_return |-> applied.args.avg_return_phase1,
                             years_to_grow |-> applied.args.years_to_invest],
                   ret |-> calculate_required_monthly_investment(
                               applied.ret, applied.args.avg_return_phase1,
                               applied.args.years_to_invest),
                   accumulated_from |-> applied.args.monthly_investment]
    /\ UNCHANGED mainVars

ApplyCoastFire ==
    /\ applied = None
    /\ \E inputs \in Scenarios :
          applied' = Application("calculate_coast_fire", [inputs |-> inputs],
                                 calculate_coast_fire(inputs))
    /\ UNCHANGED mainVars

\* calculate_pegy on the figures of a stock, each of them a number or the
\* None of a figure the data source lacks
ApplyPegy ==
    /\ applied = None
    /\ \E file \in PegyFiles, pe \in PriceEarnings \cup {None},
          growth \in Growths \cup {None}, dividend \in Dividends \cup {None} :
          applied' = Application(
              "calculate_pegy",
              [file |-> file, pe |-> pe, growth |-> growth, dividend |-> dividend,
               buffer |-> DefaultBuffer],
              PegyOfFile(file, pe, growth, dividend, DefaultBuffer))
    /\ UNCHANGED mainVars

ApplyCoastFireAge ==
    /\ applied = None
    /\ \E current_age \in SolverCurrentAges, retirement_age \in SolverRetirementAges,
          monthly_investment \in Contributions, initial_return \in InitialReturns,
          annual_return_decrease \in ReturnDecreases, target \in FireNumbers :
          LET a == [current_age |-> current_age, retirement_age |-> retirement_age,
                    monthly_investment |-> monthly_investment,
                    initial_return |-> initial_return,
                    annual_return_decrease |-> annual_return_decrease,
                    fire_number |-> target]
          IN  applied' = Application("calculate_coast_fire_age", a,
                                     calculate_coast_fire_age(a))
    /\ UNCHANGED mainVars

\* calculate_coast_fire_age is applied again with another fire_number and
\* the other arguments as before
ApplyCoastFireAgeToOtherTarget ==
    /\ applied # None
    /\ applied.fn = "calculate_coast_fire_age"
    /\ "before" \notin DOMAIN applied
    /\ \E target \in FireNumbers \ {applied.args.fire_number} :
          applied' = [fn |-> "calculate_coast_fire_age",
                      args |-> [applied.args EXCEPT !.fire_number = target],
                      ret |-> calculate_coast_fire_age(
                                  [applied.args EXCEPT !.fire_number = target]),
                      before |-> applied]
    /\ UNCHANGED mainVars

\* calculate_coast_fire_age is applied again with another monthly_investment
\* and the other arguments as before
ApplyCoastFireAgeToOtherInvestment ==
    /\ applied # None
    /\ applied.fn = "calculate_coast_fire_age"
    /\ "before" \notin DOMAIN applied
    /\ \E monthly_investment \in Contributions \ {applied.args.monthly_investment} :
          applied' = [fn |-> "calculate_coast_fire_age",
                      args |-> [applied.args
                                    EXCEPT !.monthly_investment = monthly_investment],
                      ret |-> calculate_coast_fire_age(
                                  [applied.args
                                       EXCEPT !.monthly_investment = monthly_investment]),
                      before |-> applied]
    /\ UNCHANGED mainVars

FunctionsNext ==
    \/ ApplyAverageReturn
    \/ ApplyFutureValue
    \/ ApplyAccumulated
    \/ ApplyRequiredMonthlyInvestment
    \/ ApplyRequiredToAccumulated
    \/ ApplyCoastFire
    \/ ApplyPegy
    \/ ApplyCoastFireAge
    \/ ApplyCoastFireAgeToOtherTarget
    \/ ApplyCoastFireAgeToOtherInvestment

FunctionsSpec == Init /\ [][FunctionsNext]_vars


(***************************************************************************)
(* Properties of calculate_coast_fire (mode 1).                            *)
(***************************************************************************)
\* calculate_coast_fire has been called on user_inputs and has run its
\* validation
Mode1Called == choice = "1" /\ pc \in {"raised", "validated", "returned", "done"}

\* C1: calculate_coast_fire raises a validation error and returns no result
\* whenever current_age < 0, or retirement_age <= current_age (equality
\* included), or current_investment < 0, or the monthly expense < 0, or
\* inflation_rate < 0.
C1_InvalidInputsRaise ==
    Mode1Called /\ ( \/ user_inputs.current_age < 0
                     \/ user_inputs.retirement_age <= user_inputs.current_age
                     \/ RLt(user_inputs.current_investment, Zero)
                     \/ RLt(user_inputs.expected_monthly_expense_at_retirement, Zero)
                     \/ RLt(user_inputs.inflation_rate, Zero) )
    => /\ pc \in {"raised", "done"}
       /\ error \notin {NoError, "ZeroDivisionError"}
       /\ user_result = None

\* C1, its case: the call with retirement_age = current_age has raised
C1_Witness ==
    /\ pc = "raised"
    /\ user_inputs.current_age >= 0
    /\ user_inputs.retirement_age = user_inputs.current_age
    /\ error = "retirement_age must be greater than current_age"
    /\ user_result = None

\* C2: calculate_coast_fire raises a validation error for every input whose
\* annual return is <= -1, an annual return of exactly -1 included.
C2_ReturnAtMostMinusOneRaises ==
    Mode1Called /\ RLe(user_inputs.expected_annual_return, IntToReal(-1))
    => /\ pc \in {"raised", "done"}
       /\ error \notin {NoError, "ZeroDivisionError"}
       /\ user_result = None

\* the fields of a CoastFIREInput are a valid combination: ages, investment,
\* annual return, expense and inflation as the input invariants require
ValidCombination(inputs) ==
    /\ inputs.current_age >= 0
    /\ inputs.retirement_age > inputs.current_age
    /\ RGe(inputs.current_investment, Zero)
    /\ RGt(inputs.expected_annual_return, IntToReal(-1))
    /\ RGe(inputs.expected_monthly_expense_at_retirement, Zero)
    /\ RGe(inputs.inflation_rate, Zero)

\* C3: a CoastFIREInput is validated at construction, so that every record
\* that exists before a projection is requested is a valid combination.
\* (CoastFIREInput is a NamedTuple that checks nothing: main() constructs the
\* record from whatever was typed.)
C3_ValidatedAtConstruction ==
    pc = "constructed" => ValidCombination(user_inputs)


(***************************************************************************)
(* Properties of calculate_coast_fire_age (mode 2).                        *)
(***************************************************************************)
\* calculate_coast_fire_age has been called
Called == call # None

\* calculate_coast_fire_age has returned coast_fire_age
Returned == call # None /\ pc \in {"solved", "done", "crashed"}

\* the candidate evaluated last met the target, which is how the loop returns
Hit == Len(evaluated) > 0
       /\ RGe(evaluated[Len(evaluated)].future_value, call.fire_number)

\* C4: the candidate ages are evaluated in ascending order from current_age,
\* and when the solver returns an age whose projection meets fire_number,
\* every candidate from current_age up to that age projects below
\* fire_number and no candidate after it is evaluated.  (The projection of a
\* candidate is compared with the loop body when it is evaluated, and is
\* kept as it is afterwards.)
C4_SmallestSatisfyingAge ==
    /\ Called =>
          \A i \in 1 .. Len(evaluated) :
              evaluated[i].test_age = call.current_age + i - 1
    /\ pc \in {"searching", "solved"} /\ Len(evaluated) > 0 =>
          REq(evaluated[Len(evaluated)].future_value,
              CandidateFutureValue(call, evaluated[Len(evaluated)].test_age))
    /\ Returned /\ Hit =>
          /\ coast_fire_age = evaluated[Len(evaluated)].test_age
          /\ Len(evaluated) = coast_fire_age - call.current_age + 1
          /\ \A i \in 1 .. Len(evaluated) - 1 :
                 RLt(evaluated[i].future_value, call.fire_number)
    /\ Returned =>
          \A i \in 1 .. Len(evaluated) : evaluated[i].test_age <= coast_fire_age

\* C4, its case: the solver has returned an age at least two years after
\* current_age and before retirement_age, whose projection meets the target
C4_Witness ==
    /\ pc = "solved"
    /\ Hit
    /\ coast_fire_age >= call.current_age + 2
    /\ coast_fire_age < call.retirement_age
    /\ RGt(call.fire_number, Zero)

\* C5: the age returned by calculate_coast_fire_age always lies between
\* current_age and retirement_age, both included.
C5_CoastAgeInRange ==
    Returned => /\ call.current_age <= coast_fire_age
                /\ coast_fire_age <= call.retirement_age

\* C6: when no candidate age from current_age to retirement_age projects to
\* fire_number or more, the solver returns retirement_age and the projection
\* the report recomputes for the returned age is strictly below fire_number.
C6_FallThroughBelowTarget ==
    /\ pc = "done"
    /\ Called
    /\ \A a \in call.current_age .. call.retirement_age :
           RLt(CandidateFutureValue(call, a), call.fire_number)
    => /\ coast_fire_age = call.retirement_age
       /\ RLt(printed[Len(printed)].future_value, call.fire_number)

\* C7: for any inputs the search evaluates at most
\* retirement_age - current_age + 1 candidate ages.  (The loop is a for over
\* a finite range and always ends; the bound is negative, and so exceeded by
\* a search that evaluates nothing, for the retirement_age < current_age - 1
\* that mode 2 of main() passes on unvalidated.)
C7_AtMostRangeSizeEvaluations ==
    Called => Len(evaluated) <= call.retirement_age - call.current_age + 1

\* C8: with a monthly contribution >= 0, an initial rate >= 0 and an annual
\* decrease >= 0, the value at retirement the solver projects is monotone in
\* the age at which investing stops: for candidates a < b from current_age
\* to retirement_age the projection of a is at most the projection of b
\* (stated for a current_age >= 0).
C8_MonotoneInStopAge ==
    /\ pc = "searching"
    /\ evaluated = <<>>
    /\ call.current_age >= 0
    /\ RGe(call.monthly_investment, Zero)
    /\ RGe(call.initial_return, Zero)
    /\ RGe(call.annual_return_decrease, Zero)
    => \A a \in call.current_age .. call.retirement_age :
           \A b \in a + 1 .. call.retirement_age :
               RLe(CandidateFutureValue(call, a), CandidateFutureValue(call, b))

(***************************************************************************)
(* Properties of the result and of the FIRE number.                        *)
(***************************************************************************)
\* C9: in every result returned by calculate_coast_fire, surplus_or_shortfall
\* is future_value_at_retirement - fire_number_required, and
\* has_achieved_coast_fire is true exactly when future_value_at_retirement
\* >= fire_number_required, that is exactly when surplus_or_shortfall >= 0.
C9_SurplusAndConclusion ==
    user_result # None =>
        /\ REq(user_result.surplus_or_shortfall,
               RSub(user_result.future_value_at_retirement,
                    user_result.fire_number_required))
        /\ user_result.has_achieved_coast_fire
               = RGe(user_result.future_value_at_retirement,
                     user_result.fire_number_required)
        /\ user_result.has_achieved_coast_fire
               = RGe(user_result.surplus_or_shortfall, Zero)

\* C9, its case: a result whose future value equals a positive FIRE number,
\* the boundary of >=
C9_Witness ==
    /\ pc = "returned"
    /\ RGt(user_result.fire_number_required, Zero)
    /\ REq(user_result.future_value_at_retirement, user_result.fire_number_required)
    /\ user_result.has_achieved_coast_fire
    /\ REq(user_result.surplus_or_shortfall, Zero)

\* |x|
RAbs(x0) == The({ IF x.neg THEN RNeg(x) ELSE x : x \in {x0} })

\* the relative tolerance within which two floats count as the same amount
FloatTolerance == RDiv(One, RPow(IntToReal(10), 9))

\* x and y agree within the floating tolerance:
\* |x - y| <= FloatTolerance x max(|x|, |y|)
WithinFloatTolerance(x0, y0) ==
    The({ RLe(RAbs(RSub(x, y)), RMul(FloatTolerance, RMax(RAbs(x), RAbs(y))))
          : x \in {x0}, y \in {y0} })

\* monthly_expense x 12 x (1 + inflation_rate) ** years
InflatedAnnualExpense(monthly_expense, inflation_rate, years) ==
    RMul(RMul(monthly_expense, IntToReal(12)), RPow(RAdd(One, inflation_rate), years))

\* the withdrawal rate C10 names
FourPercent == Real(4, 100)

\* target is annual_expense / 0.04 as a float computes it, and within the
\* floating tolerance 25 times annual_expense
IsFireNumberOf(target, annual_expense) ==
    /\ REq(target, RDiv(annual_expense, FourPercent))
    /\ WithinFloatTolerance(target, RMul(IntToReal(25), annual_expense))

\* mode 1 of main() of src/main.py has a result of calculate_coast_fire
MainPyReturned ==
    /\ main_py.choice = "1"
    /\ "user_result" \in DOMAIN main_py.locals
    /\ main_py.locals.user_result # None

\* mode 2 or mode 3 of main() of src/main.py has computed its fire_number
MainPyFireNumberComputed ==
    /\ main_py.choice \in {"2", "3"}
    /\ "fire_number" \in DOMAIN main_py.locals

\* C10: the FIRE number is always the inflation-adjusted annual expense
\* divided by 0.04, that is 25 times monthly_expense x 12 x
\* (1 + inflation_rate) ** years, in the result of calculate_coast_fire and
\* in the fire_number either main() computes in its modes.  The quotient by 0.04
\* is the float the code computes; 25 times the expense is the same amount
\* within the floating tolerance.  (Stated where each is computed: of
\* fire_number when main() has computed it, of the result when
\* calculate_coast_fire has returned it, of the fire_number handed to
\* calculate_coast_fire_age at any time, and of the result of mode 1 and the
\* fire_number of modes 2 and 3 of main() of src/main.py once computed.)
C10_FireNumberIsTwentyFiveTimes ==
    /\ pc = "prompted" =>
           IsFireNumberOf(fire_number,
                          InflatedAnnualExpense(
                              prompt.monthly_expense, prompt.inflation_rate,
                              prompt.retirement_age - prompt.current_age))
    /\ pc = "returned" =>
           /\ REq(user_result.annual_expense_at_retirement,
                  InflatedAnnualExpense(
                      user_inputs.expected_monthly_expense_at_retirement,
                      user_inputs.inflation_rate,
                      user_inputs.retirement_age - user_inputs.current_age))
           /\ IsFireNumberOf(user_result.fire_number_required,
                             user_result.annual_expense_at_retirement)
           /\ REq(user_result.fire_number_required, fire_number)
    /\ Called => REq(call.fire_number, fire_number)
    /\ MainPyReturned =>
           /\ REq(main_py.locals.user_result.annual_expense_at_retirement,
                  InflatedAnnualExpense(
                      main_py.prompt.monthly_expense, main_py.prompt.inflation_rate,
                      main_py.prompt.retirement_age - main_py.prompt.current_age))
           /\ IsFireNumberOf(main_py.locals.user_result.fire_number_required,
                             main_py.locals.user_result.annual_expense_at_retirement)
    /\ MainPyFireNumberComputed =>
           IsFireNumberOf(main_py.locals.fire_number,
                          InflatedAnnualExpense(
                              main_py.prompt.monthly_expense, main_py.prompt.inflation_rate,
                              main_py.prompt.retirement_age - main_py.prompt.current_age))

\* C10, its case: a result with a positive expense and a positive inflation
\* over two years or more
C10_Witness ==
    /\ pc = "returned"
    /\ RGt(user_inputs.expected_monthly_expense_at_retirement, Zero)
    /\ RGt(user_inputs.inflation_rate, Zero)
    /\ user_result.years_to_grow >= 2
    /\ RGt(user_result.fire_number_required, Zero)

\* C11: for every input accepted by validation, the result of
\* calculate_coast_fire has annual_expense_at_retirement >= 0,
\* fire_number_required >= 0 and future_value_at_retirement >= 0; only
\* surplus_or_shortfall can be negative.
C11_AmountsNonNegative ==
    user_result # None =>
        /\ validate_inputs(user_inputs) = NoError
        /\ RGe(user_result.annual_expense_at_retirement, Zero)
        /\ RGe(user_result.fire_number_required, Zero)
        /\ RGe(user_result.future_value_at_retirement, Zero)

\* C11, its case: a result with a positive expense, FIRE number and future
\* value, and a negative surplus_or_shortfall
C11_Witness ==
    /\ pc = "returned"
    /\ RGt(user_result.annual_expense_at_retirement, Zero)
    /\ RGt(user_result.fire_number_required, Zero)
    /\ RGt(user_result.future_value_at_retirement, Zero)
    /\ RLt(user_result.surplus_or_shortfall, Zero)


(***************************************************************************)
(* Properties of the functions applied on their own.                       *)
(***************************************************************************)
\* function fn has been applied
AppliedIs(fn) == applied # None /\ applied.fn = fn

\* C13: calculate_average_return(x, 0, n) == x for every initial rate x and
\* every number of years n >= 0.
C13_ZeroDecreaseKeepsRate ==
    /\ AppliedIs("calculate_average_return")
    /\ REq(applied.args.annual_decrease, Zero)
    /\ applied.args.years >= 0
    => REq(applied.ret, applied.args.initial_return)

\* C14: for a fixed initial rate x and a fixed annual decrease d > 0,
\* calculate_average_return(x, d, n + 1) <= calculate_average_return(x, d, n)
\* for all n >= 0.
C14_NonIncreasingInYears ==
    /\ AppliedIs("calculate_average_return")
    /\ RGt(applied.args.annual_decrease, Zero)
    /\ applied.args.years >= 0
    => RLe(calculate_average_return(applied.args.initial_return,
                                    applied.args.annual_decrease,
                                    applied.args.years + 1),
           applied.ret)

\* x / 2
Half(x) == RDiv(x, IntToReal(2))

\* x - (n - 1) * d <= 0: the linear decay has driven the final year to zero
DecayedToZero(args) ==
    RLe(RSub(args.initial_return,
             RMul(IntToReal(args.years - 1), args.annual_decrease)),
        Zero)

\* C15 as stated: the effective rate never falls below x / 2 and equals
\* exactly x / 2 for every n with x - (n - 1) * d <= 0.
C15_NeverBelowHalf ==
    AppliedIs("calculate_average_return")
    => /\ RGe(applied.ret, Half(applied.args.initial_return))
       /\ DecayedToZero(applied.args)
          => REq(applied.ret, Half(applied.args.initial_return))

\* C15, amended: for every number of years other than 0 the final-year rate
\* is floored at zero, so the effective rate is at least x / 2 and is exactly
\* x / 2 when x - (n - 1) * d <= 0; for 0 years the function returns x
\* itself, whatever its sign.
C15_NeverBelowHalfOverYears ==
    AppliedIs("calculate_average_return")
    => IF applied.args.years = 0
       THEN REq(applied.ret, applied.args.initial_return)
       ELSE /\ RGe(applied.ret, Half(applied.args.initial_return))
            /\ DecayedToZero(applied.args)
               => REq(applied.ret, Half(applied.args.initial_return))

\* C15, its case: a positive rate whose linear decay would be negative in the
\* final year, floored, gives x / 2
C15_Witness ==
    /\ AppliedIs("calculate_average_return")
    /\ applied.args.years >= 2
    /\ RGt(applied.args.initial_return, Zero)
    /\ RLt(RSub(applied.args.initial_return,
                RMul(IntToReal(applied.args.years - 1), applied.args.annual_decrease)),
           Zero)
    /\ REq(applied.ret, Half(applied.args.initial_return))

\* C16: calculate_future_value(pv, r, n) returns pv unchanged whenever
\* n == 0 (for every pv and r) and whenever r == 0 (for every pv and n).
C16_FutureValueIdentities ==
    /\ AppliedIs("calculate_future_value")
    /\ (applied.args.years = 0 \/ REq(applied.args.annual_return, Zero))
    => IsReal(applied.ret) /\ REq(applied.ret, applied.args.present_value)

\* C16, its case: a positive amount at the rate 0 over two years or more
C16_Witness ==
    /\ AppliedIs("calculate_future_value")
    /\ applied.args.years >= 2
    /\ REq(applied.args.annual_return, Zero)
    /\ RGt(applied.args.present_value, Zero)
    /\ REq(applied.ret, applied.args.present_value)

\* the accumulation of the solver has been fed into
\* calculate_required_monthly_investment with the same rate and years
RoundTrip == applied # None /\ "accumulated_from" \in DOMAIN applied

\* C17: for r != 0 and n > 0, the future value of a monthly contribution
\* stream m, as accumulated in the coast-age solver, fed into
\* calculate_required_monthly_investment with the same r and n gives back m,
\* within the floating tolerance; on the zero-rate branch the accumulation is
\* m x 12n and the required contribution target / (12n) is m again.
C17_RoundTrip ==
    RoundTrip /\ applied.args.years_to_grow > 0
    => /\ IsReal(applied.ret)
       /\ WithinFloatTolerance(applied.ret, applied.accumulated_from)
       /\ REq(applied.args.annual_return, Zero)
          => REq(applied.args.fire_number_required,
                 RMul(applied.accumulated_from,
                      IntToReal(12 * applied.args.years_to_grow)))

\* C18: calculate_required_monthly_investment returns 0 whenever
\* years_to_grow == 0, for every target and every rate, without evaluating
\* the annuity factor (whose division would raise).
C18_ZeroYearsNeedNothing ==
    /\ AppliedIs("calculate_required_monthly_investment")
    /\ applied.args.years_to_grow = 0
    => IsReal(applied.ret) /\ REq(applied.ret, Zero)

\* C18, its case: zero years with a target and a rate other than 0, for which
\* the annuity factor is 0
C18_Witness ==
    /\ AppliedIs("calculate_required_monthly_investment")
    /\ applied.args.years_to_grow = 0
    /\ ~REq(applied.args.fire_number_required, Zero)
    /\ ~REq(applied.args.annual_return, Zero)
    /\ REq(FvFactor(RDiv(applied.args.annual_return, IntToReal(12)), 0), Zero)
    /\ REq(applied.ret, Zero)

\* x is the amount of cents hundredths, to the tolerance of two decimals
Near(x, cents) ==
    /\ RLe(RSub(x, Real(cents, 100)), Real(1, 200))
    /\ RGe(RSub(x, Real(cents, 100)), Real(-1, 200))

\* calculate_coast_fire has returned a result for Scenario A
ScenarioAReturned ==
    /\ AppliedIs("calculate_coast_fire")
    /\ applied.args.inputs = ScenarioA
    /\ "years_to_grow" \in DOMAIN applied.ret

\* C19 as stated: for Scenario A calculate_coast_fire returns years_to_grow
\* 25, an annual expense of about 97,860.91, a target of about 2,446,522.75,
\* a projected value of about 1,356,848.29, is_sufficient False and a
\* shortfall of about 1,089,674.46.
C19_ScenarioAAsStated ==
    AppliedIs("calculate_coast_fire") /\ applied.args.inputs = ScenarioA
    => /\ ScenarioAReturned
       /\ applied.ret.years_to_grow = 25
       /\ Near(applied.ret.annual_expense_at_retirement, 9786091)
       /\ Near(applied.ret.fire_number_required, 244652275)
       /\ Near(applied.ret.future_value_at_retirement, 135684829)
       /\ ~applied.ret.has_achieved_coast_fire
       /\ Near(applied.ret.surplus_or_shortfall, -108967446)

\* C19, amended: for Scenario A calculate_coast_fire returns years_to_grow
\* 25, an annual expense of about 100,501.34 (4000 x 12 x 1.03 ** 25), a
\* target of about 2,512,533.52, a projected value of about 1,356,858.16
\* (250000 x 1.07 ** 25), is_sufficient False and a shortfall of about
\* 1,155,675.36.
C19_ScenarioA ==
    AppliedIs("calculate_coast_fire") /\ applied.args.inputs = ScenarioA
    => /\ ScenarioAReturned
       /\ applied.ret.years_to_grow = 25
       /\ Near(applied.ret.annual_expense_at_retirement, 10050134)
       /\ Near(applied.ret.fire_number_required, 251253352)
       /\ Near(applied.ret.future_value_at_retirement, 135685816)
       /\ ~applied.ret.has_achieved_coast_fire
       /\ Near(applied.ret.surplus_or_shortfall, -115567536)

\* C19, its case: the result for Scenario A, with a shortfall
C19_Witness ==
    /\ ScenarioAReturned
    /\ RLt(applied.ret.surplus_or_shortfall, Zero)

\* growth + dividend + buffer of an application of calculate_pegy
PegyDenominator(args) == RAdd(RAdd(args.growth, args.dividend), args.buffer)

\* x and y agree to the four decimals calculate_pegy rounds to
NearFourDecimals(x, y) ==
    /\ RLe(RSub(x, y), Real(1, 20000))
    /\ RGe(RSub(x, y), Real(-1, 20000))

\* pe, growth and dividend of an application of calculate_pegy are numbers,
\* which pe <= 0 and growth + dividend + buffer <= 0 are stated of
PegyOfNumbers(args) == IsReal(args.pe) /\ IsReal(args.growth) /\ IsReal(args.dividend)

\* C20: every calculate_pegy of the repository returns None whenever pe <= 0
\* or growth + dividend + buffer <= 0, and otherwise returns
\* pe / (growth + dividend + buffer) (here: to four decimals); it never
\* raises a division-by-zero error and never returns a negative ratio.
\* (Stated of the applications to numbers.)
C20_PegyUndefinedOrRatio ==
    AppliedIs("calculate_pegy") /\ PegyOfNumbers(applied.args)
    => /\ applied.ret # Raised("ZeroDivisionError")
       /\ IsReal(applied.ret) => RGe(applied.ret, Zero)
       /\ IF RLe(applied.args.pe, Zero) \/ RLe(PegyDenominator(applied.args), Zero)
          THEN applied.ret = None
          ELSE /\ IsReal(applied.ret)
               /\ NearFourDecimals(applied.ret,
                                   RDiv(applied.args.pe, PegyDenominator(applied.args)))


(***************************************************************************)
(* Properties of the interactive front end and of the validation.          *)
(***************************************************************************)
\* the values typed at the common prompts violate the input invariants
InvalidPrompt ==
    \/ prompt.current_age < 0
    \/ prompt.retirement_age <= prompt.current_age
    \/ RLt(prompt.monthly_expense, Zero)
    \/ RLt(prompt.inflation_rate, Zero)

\* the titles of the two reports of main()
ReportTitles == {"COAST FIRE ANALYSIS REPORT", "COAST FIRE AGE CALCULATOR"}

\* C21: in every calculation mode of main(), an input combination that
\* violates the input invariants (e.g. retirement_age <= current_age) is
\* reported as invalid and main() ends without having printed a report.
C21_InvalidInputsAbort ==
    choice \in {"1", "2"} /\ InvalidPrompt
    => /\ \A i \in 1 .. Len(printed) : printed[i].title \notin ReportTitles
       /\ pc \in {"done", "crashed"}
          => \E i \in 1 .. Len(printed) : printed[i].title = "Invalid input"

\* the field a message of validate_inputs names
NamedField(message) ==
    CASE message = "current_age must be non-negative" -> "current_age"
      [] message = "retirement_age must be greater than current_age" -> "retirement_age"
      [] message = "current_investment must be non-negative" -> "current_investment"
      [] message = "expected_annual_return must be greater than -100%"
             -> "expected_annual_return"
      [] message = "expected_monthly_expense_at_retirement must be non-negative"
             -> "expected_monthly_expense_at_retirement"
      [] message = "inflation_rate must be non-negative" -> "inflation_rate"
      [] OTHER -> "no field"

\* the first field of inputs that violates its invariant, in the order
\* current_age, retirement_age, current_investment, expected_annual_return
\* (which has to be greater than -1), monthly expense, inflation_rate
FirstViolatedField(inputs) ==
    IF inputs.current_age < 0 THEN "current_age"
    ELSE IF inputs.retirement_age <= inputs.current_age THEN "retirement_age"
    ELSE IF RLt(inputs.current_investment, Zero) THEN "current_investment"
    ELSE IF RLe(inputs.expected_annual_return, IntToReal(-1))
    THEN "expected_annual_return"
    ELSE IF RLt(inputs.expected_monthly_expense_at_retirement, Zero)
    THEN "expected_monthly_expense_at_retirement"
    ELSE IF RLt(inputs.inflation_rate, Zero) THEN "inflation_rate"
    ELSE "no field"

\* C22: a validation failure of calculate_coast_fire carries a message that
\* names the violated field, and when several fields are invalid at once the
\* field named is the first violated one in the order current_age,
\* retirement_age, current_investment, expected_annual_return, monthly
\* expense, inflation_rate.
C22_FirstViolatedFieldNamed ==
    pc = "raised"
    => /\ NamedField(error) # "no field"
       /\ NamedField(error) = FirstViolatedField(user_inputs)

\* C23: whenever calculate_coast_fire returns a result, years_to_grow equals
\* retirement_age - current_age and is >= 1; the validation runs before any
\* step of the projection, so that no projection is computed for a horizon
\* of zero or of a negative number of years.
C23_HorizonAtLeastOne ==
    /\ user_result # None
       => /\ user_result.years_to_grow
                 = user_inputs.retirement_age - user_inputs.current_age
          /\ user_result.years_to_grow >= 1
    /\ pc = "validated"
       => /\ user_inputs.retirement_age - user_inputs.current_age >= 1
          /\ user_result = None
    /\ Mode1Called /\ user_inputs.retirement_age - user_inputs.current_age <= 0
       => pc \in {"raised", "done"} /\ user_result = None

\* C23, its case: a result for the shortest horizon, of one year
C23_Witness ==
    /\ pc = "returned"
    /\ user_inputs.retirement_age = user_inputs.current_age + 1
    /\ user_result.years_to_grow = 1


(***************************************************************************)
(* Properties of the projection of calculate_coast_fire_age.               *)
(***************************************************************************)
\* 1 + q + q ** 2 + ... + q ** (n - 1): the future value of n payments of 1
\* made at the end of each period, with growth factor q per period
RECURSIVE PaymentsCompounded(_, _)
PaymentsCompounded(q, n) ==
    IF n <= 0 THEN Zero
    ELSE IF n = 1 THEN One
    ELSE IF n % 2 = 0
    THEN RMul(PaymentsCompounded(q, n \div 2), RAdd(One, RPow(q, n \div 2)))
    ELSE RAdd(One, RMul(q, PaymentsCompounded(q, n - 1)))

\* the reference composition for the candidate age: the ordinary-annuity
\* future value of the contributions at the effective rate of phase 1 over
\* 12 months a year, grown at the effective rate of phase 2, which starts
\* from max(initial - (age - current_age) x d, 0)
ReferenceProjection(a, age) ==
    RMul(IF age = a.current_age
         THEN Zero
         ELSE RMul(a.monthly_investment,
                   PaymentsCompounded(
                       RAdd(One,
                            RDiv(calculate_average_return(
                                     a.initial_return, a.annual_return_decrease,
                                     age - a.current_age),
                                 IntToReal(12))),
                       12 * (age - a.current_age))),
         RPow(RAdd(One,
                   calculate_average_return(
                       RMax(RSub(a.initial_return,
                                 RMul(IntToReal(age - a.current_age),
                                      a.annual_return_decrease)),
                            Zero),
                       a.annual_return_decrease, a.retirement_age - age)),
              a.retirement_age - age))

\* C24: for each candidate age the projection of the solver equals the
\* reference composition: accumulated is 0 at current_age and otherwise the
\* ordinary-annuity future value of the monthly contribution at
\* effective_rate(initial, d, a - current_age) / 12 over 12 (a - current_age)
\* months; the rate of phase 2 starts from max(initial - (a - current_age)
\* x d, 0); projected = accumulated x (1 + effective_rate(start, d,
\* retirement_age - a)) ** (retirement_age - a), the two being the same
\* amount within the floating tolerance.  (Stated of the candidate
\* evaluated last, while the solver runs and when it returns: every
\* candidate is the last one right after its iteration.)
C24_ProjectionIsReferenceComposition ==
    pc \in {"searching", "solved"} /\ Len(evaluated) > 0
    => /\ evaluated[Len(evaluated)].test_age \in call.current_age .. call.retirement_age
       /\ WithinFloatTolerance(
              evaluated[Len(evaluated)].future_value,
              ReferenceProjection(call, evaluated[Len(evaluated)].test_age))

\* C24, its case: a candidate two years or more after current_age and two
\* years or more before retirement_age has been evaluated, with a positive
\* contribution and a positive return that decreases
C24_Witness ==
    /\ Called
    /\ Len(evaluated) > 0
    /\ evaluated[Len(evaluated)].test_age >= call.current_age + 2
    /\ evaluated[Len(evaluated)].test_age <= call.retirement_age - 2
    /\ RGt(evaluated[Len(evaluated)].future_value, Zero)
    /\ RGt(call.monthly_investment, Zero)
    /\ RGt(call.initial_return, Zero)
    /\ RGt(call.annual_return_decrease, Zero)

\* the contributions accumulated over the full horizon, from current_age to
\* retirement_age, with no year of growth remaining
AccumulatedOverFullHorizon(a) ==
    Accumulated(a.monthly_investment,
                calculate_average_return(a.initial_return, a.annual_return_decrease,
                                         a.retirement_age - a.current_age),
                a.retirement_age - a.current_age)

\* C25: whenever calculate_coast_fire_age returns an age strictly below
\* retirement_age, the projection for that age meets fire_number; when it
\* returns retirement_age, that age is a real solution (the loop returned it
\* on a projection that meets fire_number) exactly when the contributions
\* accumulated over the full horizon are >= fire_number, and is the fallback
\* otherwise.
C25_ReturnedAgeIsSolution ==
    Returned /\ ~ReportRaises(call, coast_fire_age)
    => /\ coast_fire_age < call.retirement_age
          => /\ Hit
             /\ RGe(CandidateFutureValue(call, coast_fire_age), call.fire_number)
       /\ coast_fire_age = call.retirement_age
          => (Hit <=> RGe(AccumulatedOverFullHorizon(call), call.fire_number))

\* C26: with retirement_age > current_age, calculate_coast_fire_age returns
\* current_age if and only if fire_number <= 0: the leftmost candidate
\* projects to exactly 0, so that a positive target forces a coast age of
\* current_age + 1 at least.
C26_CurrentAgeOnlyForNoTarget ==
    Called /\ call.retirement_age > call.current_age
    => /\ Len(evaluated) > 0
          => /\ evaluated[1].test_age = call.current_age
             /\ REq(evaluated[1].future_value, Zero)
       /\ Returned
          => /\ coast_fire_age = call.current_age <=> RLe(call.fire_number, Zero)
             /\ RGt(call.fire_number, Zero) => coast_fire_age >= call.current_age + 1

\* C26, its case: a positive target and a positive contribution, whose
\* projection meets the target after one year of investing
C26_Witness ==
    /\ Returned
    /\ call.retirement_age > call.current_age + 1
    /\ RGt(call.fire_number, Zero)
    /\ RGt(call.monthly_investment, Zero)
    /\ Hit
    /\ coast_fire_age = call.current_age + 1


(***************************************************************************)
(* Properties of calculate_coast_fire_age applied to two sets of arguments.*)
(***************************************************************************)
\* calculate_coast_fire_age has been applied twice, the second time with
\* another value of argument and with the other arguments unchanged
AppliedAgainWithOther(argument) ==
    /\ AppliedIs("calculate_coast_fire_age")
    /\ "before" \in DOMAIN applied
    /\ applied.args[argument] # applied.before.args[argument]

\* C27: with all other arguments fixed, the age returned by
\* calculate_coast_fire_age is non-decreasing in fire_number: a higher target
\* never gives an earlier coast age.
C27_NonDecreasingInFireNumber ==
    AppliedAgainWithOther("fire_number")
    => /\ RLe(applied.before.args.fire_number, applied.args.fire_number)
          => applied.before.ret <= applied.ret
       /\ RGe(applied.before.args.fire_number, applied.args.fire_number)
          => applied.before.ret >= applied.ret

\* C27, its case: a higher target has given a later age, both before
\* retirement_age
C27_Witness ==
    /\ AppliedAgainWithOther("fire_number")
    /\ RLt(applied.before.args.fire_number, applied.args.fire_number)
    /\ applied.args.current_age <= applied.before.ret
    /\ applied.before.ret < applied.ret
    /\ applied.ret < applied.args.retirement_age

\* C28: with initial_return >= 0, annual_return_decrease >= 0 and all other
\* arguments fixed, the age returned by calculate_coast_fire_age is
\* non-increasing in the monthly investment over amounts >= 0: a higher
\* contribution never gives a later coast age.
C28_NonIncreasingInMonthlyInvestment ==
    /\ AppliedAgainWithOther("monthly_investment")
    /\ RGe(applied.args.initial_return, Zero)
    /\ RGe(applied.args.annual_return_decrease, Zero)
    /\ RGe(applied.args.monthly_investment, Zero)
    /\ RGe(applied.before.args.monthly_investment, Zero)
    => /\ RLe(applied.before.args.monthly_investment, applied.args.monthly_investment)
          => applied.before.ret >= applied.ret
       /\ RGe(applied.before.args.monthly_investment, applied.args.monthly_investment)
          => applied.before.ret <= applied.ret

\* C28, its case: a higher positive contribution has given an earlier age,
\* after current_age
C28_Witness ==
    /\ AppliedAgainWithOther("monthly_investment")
    /\ RGe(applied.args.initial_return, Zero)
    /\ RGt(applied.before.args.monthly_investment, Zero)
    /\ RLt(applied.before.args.monthly_investment, applied.args.monthly_investment)
    /\ applied.args.current_age < applied.ret
    /\ applied.ret < applied.before.ret


(***************************************************************************)
(* Properties of the division of calculate_required_monthly_investment.    *)
(***************************************************************************)
\* -1, 0 or 1 as x is negative, zero or positive
Sign(x) == IF RLt(x, Zero) THEN -1 ELSE IF RGt(x, Zero) THEN 1 ELSE 0

\* C29: for every annual_return > -1 and years_to_grow > 0,
\* calculate_required_monthly_investment never divides by zero: on the
\* branch of a rate other than 0 the annuity factor
\* ((1 + r/12) ** (12n) - 1) / (r/12) is strictly positive, so that the
\* result has the sign of the target.
C29_NeverDividesByZero ==
    /\ AppliedIs("calculate_required_monthly_investment")
    /\ RGt(applied.args.annual_return, IntToReal(-1))
    /\ applied.args.years_to_grow > 0
    => /\ applied.ret # Raised("ZeroDivisionError")
       /\ IsReal(applied.ret)
       /\ ~REq(applied.args.annual_return, Zero)
          => RGt(FvFactor(RDiv(applied.args.annual_return, IntToReal(12)),
                          12 * applied.args.years_to_grow),
                 Zero)
       /\ IsReal(applied.ret)
          => Sign(applied.ret) = Sign(applied.args.fire_number_required)

====
